---------------------------- MODULE Spec2Model ----------------------------
(***************************************************************************)
(* Verification models of the Rcpp gallery examples.                       *)
(*                                                                         *)
(* The gallery is a set of independent programs; each program has its own  *)
(* variables, its own initial predicate and its own specification below.   *)
(* A specification leaves the variables of the other programs at their     *)
(* idle values.                                                            *)
(***************************************************************************)
EXTENDS Integers, Sequences, FiniteSets, TLC

VARIABLES
    \* tauleapCpp (2015-04-25-epidemiological-compartment-model.cpp)
    nsteps, SS, II, RR, NN, time, istep,
    \* parallelVectorSum (2014-06-29-parallel-vector-sum.cpp)
    input, workers, tasks, sumResult,
    \* parallelMatrixSqrt (2014-06-29-parallel-matrix-transform.cpp)
    orig, output, ranges, written, sqrtResult,
    \* run_sum, run_sum_v1, run_sum_v2 (2012-12-28-run-functions.cpp,
    \* 2013-01-06-run_sum-benchmark.cpp)
    run_x, run_n, run_ret,
    \* takeLog, takeLog2, takeLog3 (2013-01-13-intro-to-exceptions.cpp)
    log_val, log_ret,
    \* BigArmaColSums (2014-07-25-using-bigmemory-with-rcpparmadillo.cpp)
    pBigMat, subsetCols, bigRet,
    \* lexicalCast (2013-01-15-a-second-boost-example.cpp)
    lex_v, lex_res, lex_i, lex_ret,
    \* dgCMatrix (_posts/RcppSparse.h)
    sp_args, sp_mat, sp_made, sp_ret,
    \* toPOSIXct (2015-03-22-parsing-datetimes.cpp)
    px_x, px_pv, px_i, px_ret,
    \* fibCpp (2012-12-23-fibonacci-sequence.cpp)
    fib_n, fib_stack, fib_val,
    \* innerProduct (2012-12-27-stl-inner-product.cpp)
    ip_x, ip_y, ip_ret,
    \* median_rcpp (2013-01-20-robust-estimators.cpp)
    med_x, med_y, med_ret,
    \* stl_nth_element (2013-01-31-sorting.cpp)
    nth_x, nth_n, nth_ret,
    \* cumsum1, cumsum2, cumsum_sug (2012-12-22-vector-cumulative-sum.cpp)
    cum_x, cum_ret

sirVars == <<nsteps, SS, II, RR, NN, time, istep>>
sumVars == <<input, workers, tasks, sumResult>>

sqrtVars == <<orig, output, ranges, written, sqrtResult>>

runVars == <<run_x, run_n, run_ret>>

logVars == <<log_val, log_ret>>

bamVars == <<pBigMat, subsetCols, bigRet>>

lexVars == <<lex_v, lex_res, lex_i, lex_ret>>

sparseVars == <<sp_args, sp_mat, sp_made, sp_ret>>

posixVars == <<px_x, px_pv, px_i, px_ret>>

fibVars == <<fib_n, fib_stack, fib_val>>

ipVars == <<ip_x, ip_y, ip_ret>>

medVars == <<med_x, med_y, med_ret>>

nthVars == <<nth_x, nth_n, nth_ret>>

cumVars == <<cum_x, cum_ret>>

vars == <<sirVars, sumVars, sqrtVars, runVars, logVars, bamVars, lexVars,
         sparseVars, posixVars, fibVars, ipVars, medVars, nthVars, cumVars>>

(***************************************************************************)
(* Helpers shared by the programs.                                         *)
(***************************************************************************)

\* std::min(a, b) of <algorithm>: b when b < a, else a.
Min(a, b) == IF b < a THEN b ELSE a

\* The idle value of a variable that a specification does not use.
Idle == "idle"

SirIdle ==
    /\ nsteps = Idle /\ SS = Idle /\ II = Idle /\ RR = Idle
    /\ NN = Idle /\ time = Idle /\ istep = Idle

SumIdle ==
    /\ input = Idle /\ workers = Idle /\ tasks = Idle /\ sumResult = Idle

SqrtIdle ==
    /\ orig = Idle /\ output = Idle /\ ranges = Idle /\ written = Idle
    /\ sqrtResult = Idle

RunIdle == run_x = Idle /\ run_n = Idle /\ run_ret = Idle

LogIdle == log_val = Idle /\ log_ret = Idle

BamIdle == pBigMat = Idle /\ subsetCols = Idle /\ bigRet = Idle

LexIdle == lex_v = Idle /\ lex_res = Idle /\ lex_i = Idle /\ lex_ret = Idle

SparseIdle ==
    sp_args = Idle /\ sp_mat = Idle /\ sp_made = Idle /\ sp_ret = Idle

PosixIdle ==
    /\ px_x = Idle /\ px_pv = Idle /\ px_i = Idle /\ px_ret = Idle

FibIdle ==
    /\ fib_n = Idle /\ fib_stack = Idle /\ fib_val = Idle

IpIdle ==
    /\ ip_x = Idle /\ ip_y = Idle /\ ip_ret = Idle

MedIdle ==
    /\ med_x = Idle /\ med_y = Idle /\ med_ret = Idle

NthIdle ==
    /\ nth_x = Idle /\ nth_n = Idle /\ nth_ret = Idle

CumIdle ==
    /\ cum_x = Idle /\ cum_ret = Idle

\* A value that may be absent: None, or Some(v) holding the value v.
None == <<>>
Some(v) == <<v>>

\* The elements of the sequence s at the 0-based positions b .. e-1.
Slice(s, b, e) == [k \in 1..(e - b) |-> s[b + k]]

(***************************************************************************)
(* IEEE-754 binary64 ("double") addition and subtraction, round to nearest,*)
(* ties to even, on the doubles of the form hi * 2^53 + lo with small      *)
(* integers hi and lo.  A double is the record [hi, lo].  Below 2^53 every *)
(* integer is a double; in [2^53 * 2^k, 2^53 * 2^(k+1)) the doubles are    *)
(* the multiples of 2^(k+1).                                               *)
(***************************************************************************)

\* The double with the integer value n, |n| < 2^53.
D(n) == [hi |-> 0, lo |-> n]
\* The double 2^53.
Big == [hi |-> 1, lo |-> 0]

DNeg(a) == [hi |-> 0 - a.hi, lo |-> 0 - a.lo]

\* The double nearest to the real number hi * 2^53 + lo.
Round(v) ==
    LET \* The largest power of two that is at most h, for h >= 1.
        RECURSIVE Pow2Floor(_)
        Pow2Floor(h) == IF h < 2 THEN 1 ELSE 2 * Pow2Floor(h \div 2)
        \* l rounded to the nearest multiple of u, a tie to the even
        \* multiple.
        RoundToMultiple(l, u) ==
            LET q == l \div u
                r == l % u
            IN  IF 2 * r < u THEN q * u
                ELSE IF 2 * r > u THEN (q + 1) * u
                ELSE IF q % 2 = 0 THEN q * u ELSE (q + 1) * u
        \* The double nearest to the real number w.hi * 2^53 + w.lo >= 0.
        RoundPos(w) ==
            LET hEff == IF w.lo < 0 THEN w.hi - 1 ELSE w.hi
            IN  IF hEff <= 0 THEN w
                ELSE [hi |-> w.hi,
                      lo |-> RoundToMultiple(w.lo, 2 * Pow2Floor(hEff))]
    IN  IF v.hi < 0 THEN DNeg(RoundPos(DNeg(v))) ELSE RoundPos(v)

\* a + b and a - b in double arithmetic.
DAdd(a, b) == Round([hi |-> a.hi + b.hi, lo |-> a.lo + b.lo])
DSub(a, b) == Round([hi |-> a.hi - b.hi, lo |-> a.lo - b.lo])

\* Every partial sum of elements of the vector vec is exact: the elements
\* are integers whose magnitudes sum to less than 2^53.
ExactVec(vec) == \A k \in 1..Len(vec) : vec[k].hi = 0

RECURSIVE Accumulate(_, _, _, _)
\* std::accumulate(first + b, first + e, init) over the vector vec: a left
\* fold with double addition.
Accumulate(vec, b, e, init) ==
    IF b >= e THEN init
    ELSE Accumulate(vec, b + 1, e, DAdd(init, vec[b + 1]))

(***************************************************************************)
(* parallelVectorSum: a Sum worker driven by RcppParallel's parallelReduce.*)
(* The runtime splits [0, length(x)) into disjoint ranges, hands a range   *)
(* either to the worker it was split from or to a new worker made by the   *)
(* splitting constructor, calls operator() once per range and joins every  *)
(* split worker into the worker it was split from.                         *)
(***************************************************************************)

\* Bound of the model: the longest input vector.
MaxLen == 3

\* The values an element of the input takes.
DblVals == {D(0), D(1), D(2), Big}

\* The vectors of length 0 .. n over the set S.
SeqsUpTo(S, n) == UNION {[1..m -> S] : m \in 0..n}


\* vectorSum, lines 29-31.
vectorSum(x) == Accumulate(x, 0, Len(x), D(0))

\* (a splitting constructor that copies the accumulated value)
SplitValueCopied(sum) == sum.value
\* Sum(const Sum& sum, Split), line 78: value(0).
SplitValue(sum) == D(0)

\* A worker: its accumulated value, the worker it was split from (0 for
\* the worker declared by parallelVectorSum), whether it has been joined,
\* and how often each element has gone into its value.
NewWorker(value, parent, n) ==
    [value |-> value, parent |-> parent, joined |-> FALSE,
     counted |-> [k \in 0..(n - 1) |-> 0]]

\* Lines 112-115: Sum sum(x); parallelReduce(0, x.length(), sum).  The
\* constructor Sum(const NumericVector input), line 77, sets value(0).
SumInit ==
    /\ input \in SeqsUpTo(DblVals, MaxLen)
    /\ workers = <<NewWorker(D(0), 0, Len(input))>>
    /\ tasks = {[begin |-> 0, end |-> Len(input), w |-> 1]}
    /\ sumResult = None
    /\ SirIdle /\ SqrtIdle /\ RunIdle /\ LogIdle /\ BamIdle /\ LexIdle
    /\ SparseIdle /\ PosixIdle /\ FibIdle /\ IpIdle /\ MedIdle /\ NthIdle
    /\ CumIdle

\* The runtime splits a range in two and leaves both halves with the
\* worker that had the range.
SplitRange ==
    /\ sumResult = None
    /\ \E t \in tasks : \E mid \in (t.begin + 1)..(t.end - 1) :
          tasks' = (tasks \ {t}) \cup
                   {[t EXCEPT !.end = mid], [t EXCEPT !.begin = mid]}
    /\ UNCHANGED <<input, workers, sumResult>>
    /\ UNCHANGED <<sirVars, sqrtVars, runVars, logVars, bamVars, lexVars,
                   sparseVars, posixVars, fibVars, ipVars, medVars, nthVars,
                   cumVars>>

\* The runtime splits a range in two and hands the right half to a new
\* worker made by the splitting constructor.
SplitWorker ==
    /\ sumResult = None
    /\ \E t \in tasks : \E mid \in (t.begin + 1)..(t.end - 1) :
          /\ workers' = Append(workers,
                 NewWorker(SplitValue(workers[t.w]), t.w, Len(input)))
          /\ tasks' = (tasks \ {t}) \cup
                 {[t EXCEPT !.end = mid],
                  [begin |-> mid, end |-> t.end, w |-> Len(workers) + 1]}
    /\ UNCHANGED <<input, sumResult>>
    /\ UNCHANGED <<sirVars, sqrtVars, runVars, logVars, bamVars, lexVars,
                   sparseVars, posixVars, fibVars, ipVars, medVars, nthVars,
                   cumVars>>

\* Sum::operator()(begin, end), lines 81-83: value +=
\* std::accumulate(input.begin() + begin, input.begin() + end, 0.0).
SumCall ==
    /\ sumResult = None
    /\ \E t \in tasks :
          /\ workers' = [workers EXCEPT
                 ![t.w].value =
                     DAdd(@, Accumulate(input, t.begin, t.end, D(0))),
                 ![t.w].counted = [k \in DOMAIN @ |->
                     IF t.begin <= k /\ k < t.end THEN @[k] + 1 ELSE @[k]]]
          /\ tasks' = tasks \ {t}
    /\ UNCHANGED <<input, sumResult>>
    /\ UNCHANGED <<sirVars, sqrtVars, runVars, logVars, bamVars, lexVars,
                   sparseVars, posixVars, fibVars, ipVars, medVars, nthVars,
                   cumVars>>

\* The worker r has done all its work: it holds no range and every worker
\* split from it has been joined into it.
Finished(r) ==
    /\ \A t \in tasks : t.w # r
    /\ \A c \in 1..Len(workers) : workers[c].parent = r => workers[c].joined

\* Sum::join(rhs), lines 86-88: value += rhs.value.
SumJoin ==
    /\ sumResult = None
    /\ \E r \in 2..Len(workers) :
          /\ ~workers[r].joined
          /\ Finished(r)
          /\ LET w == workers[r].parent
             IN  workers' = [workers EXCEPT
                     ![w].value = DAdd(@, workers[r].value),
                     ![w].counted = [k \in DOMAIN @ |->
                                        @[k] + workers[r].counted[k]],
                     ![r].joined = TRUE]
    /\ UNCHANGED <<input, tasks, sumResult>>
    /\ UNCHANGED <<sirVars, sqrtVars, runVars, logVars, bamVars, lexVars,
                   sparseVars, posixVars, fibVars, ipVars, medVars, nthVars,
                   cumVars>>

\* Lines 117-118: parallelReduce has returned; return sum.value.
SumReturn ==
    /\ sumResult = None
    /\ Finished(1)
    /\ sumResult' = Some(workers[1].value)
    /\ UNCHANGED <<input, workers, tasks>>
    /\ UNCHANGED <<sirVars, sqrtVars, runVars, logVars, bamVars, lexVars,
                   sparseVars, posixVars, fibVars, ipVars, medVars, nthVars,
                   cumVars>>

SumNext == SplitRange \/ SplitWorker \/ SumCall \/ SumJoin \/ SumReturn

\* The other programs stay idle.
SpecSum == SumInit /\ [][SumNext]_vars

\* C3 as stated: for every vector and every way the runtime splits, calls
\* and joins, parallelVectorSum(x) returns the value of vectorSum(x).
C3_ParallelEqualsSerial ==
    sumResult # None => sumResult = Some(vectorSum(input))

\* C3, amended: the value returned holds every element exactly once, and it
\* is the value of vectorSum(x) when every partial sum is exact.
C3_CountedOnceAndEqualWhenExact ==
    sumResult # None =>
        /\ \A k \in 0..(Len(input) - 1) : workers[1].counted[k] = 1
        /\ ExactVec(input) => sumResult = Some(vectorSum(input))

\* A run with exact sums that has returned after it split twice, the
\* third worker from the second.
C3_Witness ==
    /\ sumResult # None
    /\ Len(input) = 3
    /\ ExactVec(input)
    /\ sumResult = Some(D(5))
    /\ Len(workers) = 3
    /\ workers[3].parent = 2

(***************************************************************************)
(* parallelMatrixSqrt: a SquareRoot worker driven by RcppParallel's        *)
(* parallelFor.  The runtime splits [0, length(x)) into disjoint ranges    *)
(* and calls operator() once per range; the calls run concurrently, so     *)
(* their element-wise steps interleave.  A matrix is its dimensions and    *)
(* its cells in column-major order.                                        *)
(***************************************************************************)

\* Bound of the model: the largest number of cells of the input matrix.
MaxCells == 3

\* The values a cell of the input takes, and ::sqrt of them: a double is
\* <<"int", v>> for the integer v, <<"sqrt", v>> for the (irrational) root
\* of v and <<"nan", 0>> for NaN.
CellVals == {<<"int", 0>>, <<"int", 2>>, <<"int", 4>>, <<"int", -1>>}

sqrt(c) ==
    IF c[2] < 0 THEN <<"nan", 0>>
    ELSE IF \E r \in 0..c[2] : r * r = c[2]
         THEN <<"int", CHOOSE r \in 0..c[2] : r * r = c[2]>>
         ELSE <<"sqrt", c[2]>>

\* NumericMatrix(nrow, ncol): a matrix of zeros.
NumericMatrix(nrow, ncol) ==
    [nrow |-> nrow, ncol |-> ncol,
     data |-> [k \in 1..(nrow * ncol) |-> <<"int", 0>>]]

Matrices ==
    {[nrow |-> nr, ncol |-> nc, data |-> d] :
        <<nr, nc, d>> \in
            {t \in (0..MaxCells) \X (0..MaxCells) \X SeqsUpTo(CellVals, MaxCells) :
                Len(t[3]) = t[1] * t[2]}}

\* matrixSqrt, lines 32-42: std::transform over all the cells.
matrixSqrt(m) ==
    [NumericMatrix(m.nrow, m.ncol) EXCEPT
        !.data = [k \in 1..Len(m.data) |-> sqrt(m.data[k])]]

\* Lines 106-112: the output matrix is allocated, the worker made and
\* parallelFor started on the range [0, x.length()).  A range is
\* [begin, end) with the position pos of the next cell its call of
\* operator() transforms.
SqrtInit ==
    /\ orig \in Matrices
    /\ output = NumericMatrix(orig.nrow, orig.ncol)
    /\ ranges = {[begin |-> 0, end |-> Len(orig.data), pos |-> 0]}
    /\ written = {}
    /\ sqrtResult = None
    /\ SirIdle /\ SumIdle /\ RunIdle /\ LogIdle /\ BamIdle /\ LexIdle
    /\ SparseIdle /\ PosixIdle /\ FibIdle /\ IpIdle /\ MedIdle /\ NthIdle
    /\ CumIdle

\* The runtime splits a range on which operator() has not been called.
SqrtSplit ==
    /\ sqrtResult = None
    /\ \E t \in ranges : \E mid \in (t.begin + 1)..(t.end - 1) :
          /\ t.pos = t.begin
          /\ ranges' = (ranges \ {t}) \cup
                 {[begin |-> t.begin, end |-> mid, pos |-> t.begin],
                  [begin |-> mid, end |-> t.end, pos |-> mid]}
    /\ UNCHANGED <<orig, output, written, sqrtResult>>
    /\ UNCHANGED <<sirVars, sumVars, runVars, logVars, bamVars, lexVars,
                   sparseVars, posixVars, fibVars, ipVars, medVars, nthVars,
                   cumVars>>

\* (a transform that writes from the start of the output)
OutputPosNoOffset(begin, k) == k - begin
\* Line 78: the cell input.begin() + k is written to output.begin() + begin
\* + (k - begin).
OutputPos(begin, k) == begin + (k - begin)

\* SquareRoot::operator()(begin, end), lines 75-80: one step of
\* std::transform, the cell at pos.
SqrtStep ==
    /\ sqrtResult = None
    /\ \E t \in ranges :
          /\ t.pos < t.end
          /\ LET to == OutputPos(t.begin, t.pos)
             IN  /\ output' = [output EXCEPT
                        !.data[to + 1] = sqrt(orig.data[t.pos + 1])]
                 /\ written' = written \cup
                        {[cell |-> to, from |-> t.pos,
                          begin |-> t.begin, end |-> t.end]}
          /\ ranges' = (ranges \ {t}) \cup {[t EXCEPT !.pos = t.pos + 1]}
    /\ UNCHANGED <<orig, sqrtResult>>
    /\ UNCHANGED <<sirVars, sumVars, runVars, logVars, bamVars, lexVars,
                   sparseVars, posixVars, fibVars, ipVars, medVars, nthVars,
                   cumVars>>

\* Lines 114-115: parallelFor has returned; return output.
SqrtReturn ==
    /\ sqrtResult = None
    /\ \A t \in ranges : t.pos = t.end
    /\ sqrtResult' = Some(output)
    /\ UNCHANGED <<orig, output, ranges, written>>
    /\ UNCHANGED <<sirVars, sumVars, runVars, logVars, bamVars, lexVars,
                   sparseVars, posixVars, fibVars, ipVars, medVars, nthVars,
                   cumVars>>

SqrtNext == SqrtSplit \/ SqrtStep \/ SqrtReturn

\* The other programs stay idle.
SpecSqrt == SqrtInit /\ [][SqrtNext]_vars

\* C4: parallelMatrixSqrt(x) is identical to matrixSqrt(x); each output
\* cell is written exactly once, with the transform of the input cell at
\* the same position, and a call given [begin, end) writes no cell outside
\* [begin, end).
C4_ParallelSqrtIdentical ==
    /\ \A w \in written :
          /\ w.begin <= w.cell /\ w.cell < w.end
          /\ w.cell = w.from
    /\ \A w1, w2 \in written : w1.cell = w2.cell => w1 = w2
    /\ sqrtResult # None =>
          /\ sqrtResult = Some(matrixSqrt(orig))
          /\ \A k \in 0..(Len(orig.data) - 1) : \E w \in written : w.cell = k

\* A 1 x 3 matrix with a square, a non-square and a negative cell that was
\* transformed by two calls, on [0, 1) and on [1, 3), and returned.
C4_Witness ==
    /\ sqrtResult # None
    /\ orig.nrow = 1 /\ orig.ncol = 3
    /\ orig.data = <<<<"int", 4>>, <<"int", 2>>, <<"int", -1>>>>
    /\ ranges = {[begin |-> 0, end |-> 1, pos |-> 1],
                 [begin |-> 1, end |-> 3, pos |-> 3]}

(***************************************************************************)
(* The running sums run_sum, run_sum_v1 and run_sum_v2 over a window of n  *)
(* elements.  A call returns the vector res and the set oob of the         *)
(* accesses it made outside [0, sz) of x or res; such an access is         *)
(* undefined behaviour, and res says nothing when oob is not empty.        *)
(***************************************************************************)

\* NA_REAL, the missing value.
NA_REAL == [na |-> TRUE]

\* NumericVector res(sz) and std::vector<double> res(sz): sz zeros.
Zeros(sz) == [k \in 1..sz |-> D(0)]

\* The positions a loop "for (; first != last; ++first)" visits in an
\* array of sz elements: first .. last-1, and when last is before first
\* the loop runs off the end of the array, sz being the first position
\* there.
Walk(first, last, sz) ==
    IF first <= last THEN first..(last - 1) ELSE first..sz

\* The accesses to the array a at the positions idx outside [0, sz).
OutOfRange(a, idx, sz) == {<<a, k>> : k \in {j \in idx : j < 0 \/ j >= sz}}

\* std::fill(res.begin(), res.begin() + m, NA_REAL), for 0 <= m <= Len(res).
FillNA(res, m) == [k \in 1..Len(res) |-> IF k <= m THEN NA_REAL ELSE res[k]]

RECURSIVE RunSumLoop(_, _, _, _)
\* The loop "for (i = n; i < sz; i++) res[i] = res[i-1] + x[i] - x[i-n]"
\* from i on, for n >= 1.
RunSumLoop(res, x, n, i) ==
    IF i >= Len(x) THEN res
    ELSE RunSumLoop(
             [res EXCEPT ![i + 1] = DSub(DAdd(res[i], x[i + 1]), x[i - n + 1])],
             x, n, i + 1)

\* The accesses out of range of the incremental running sum.
RunSumOob(sz, n) ==
    OutOfRange("x", Walk(0, n, sz), sz)
    \cup OutOfRange("res", {n - 1}, sz)
    \cup OutOfRange("x", UNION {{i, i - n} : i \in n..(sz - 1)}, sz)
    \cup OutOfRange("res", UNION {{i, i - 1} : i \in n..(sz - 1)}, sz)
    \cup OutOfRange("res", Walk(0, n - 1, sz), sz)

\* (a first window that leaves out its last element)
RunSumFirstShort(x, n) == Accumulate(x, 0, n - 1, D(0))
\* Line 26 of run-functions.cpp, line 137 of run_sum-benchmark.cpp: the sum
\* of the first window, std::accumulate(x.begin(), x.end()-sz+n, 0.0).
RunSumFirst(x, n) == Accumulate(x, 0, n, D(0))

\* run_sum, 2012-12-28-run-functions.cpp lines 22-34.
run_sum(x, n) ==
    LET sz == Len(x)
        oob == RunSumOob(sz, n)
    IN  [oob |-> oob,
         res |-> IF oob # {} THEN <<>>
                 ELSE FillNA(RunSumLoop(
                          [Zeros(sz) EXCEPT ![n] = RunSumFirst(x, n)],
                          x, n, n), n - 1)]

\* run_sum_v2, 2013-01-06-run_sum-benchmark.cpp lines 126-147.
run_sum_v2(x, n) ==
    LET sz == Len(x)
        oob == RunSumOob(sz, n)
    IN  [oob |-> oob,
         res |-> IF oob # {} THEN <<>>
                 ELSE FillNA(RunSumLoop(
                          [Zeros(sz) EXCEPT ![n] = RunSumFirst(x, n)],
                          x, n, n), n - 1)]

\* Line 86 of run_sum-benchmark.cpp: the sum of the window that starts at
\* i, std::accumulate(x.begin()+i, x.end()-sz+n+i, 0.0).
WindowSum(x, n, i) == Accumulate(x, i, n + i, D(0))

\* run_sum_v1, 2013-01-06-run_sum-benchmark.cpp lines 73-92.
run_sum_v1(x, n) ==
    LET sz == Len(x)
        oob == OutOfRange("x", UNION {Walk(i, n + i, sz) : i \in 0..(sz - n)}, sz)
               \cup OutOfRange("res", {i + n - 1 : i \in 0..(sz - n)}, sz)
               \cup OutOfRange("res", Walk(0, n - 1, sz), sz)
    IN  [oob |-> oob,
         res |-> IF oob # {} THEN <<>>
                 ELSE FillNA([k \in 1..sz |->
                                 IF k >= n THEN WindowSum(x, n, k - n)
                                 ELSE D(0)],
                             n - 1)]

\* run_min, 2012-12-28-run-functions.cpp lines 82-91.  std::min_element
\* visits [i, n+i) and returns its end for an empty range, so that the
\* dereference reads x[i] when n = 0.
run_min(x, n) ==
    LET sz == Len(x)
        Less(a, b) == a.hi < b.hi \/ (a.hi = b.hi /\ a.lo < b.lo)
        RECURSIVE min_element(_, _, _)
        min_element(w, k, best) ==
            IF k > Len(w) THEN best
            ELSE min_element(w, k + 1,
                             IF Less(w[k], best) THEN w[k] ELSE best)
        oob == OutOfRange("x", UNION {IF n = 0 THEN {i} ELSE Walk(i, n + i, sz)
                                         : i \in 0..(sz - n)}, sz)
               \cup OutOfRange("res", {i + n - 1 : i \in 0..(sz - n)}, sz)
               \cup OutOfRange("res", Walk(0, n - 1, sz), sz)
    IN  [oob |-> oob,
         res |-> IF oob # {} THEN <<>>
                 ELSE FillNA([k \in 1..sz |->
                                 IF k >= n
                                 THEN min_element(Slice(x, k - n, k), 2,
                                                  x[k - n + 1])
                                 ELSE D(0)],
                             n - 1)]

\* run_max, 2012-12-28-run-functions.cpp lines 102-111, with
\* std::max_element.
run_max(x, n) ==
    LET sz == Len(x)
        Less(a, b) == a.hi < b.hi \/ (a.hi = b.hi /\ a.lo < b.lo)
        RECURSIVE max_element(_, _, _)
        max_element(w, k, best) ==
            IF k > Len(w) THEN best
            ELSE max_element(w, k + 1,
                             IF Less(best, w[k]) THEN w[k] ELSE best)
        oob == OutOfRange("x", UNION {IF n = 0 THEN {i} ELSE Walk(i, n + i, sz)
                                         : i \in 0..(sz - n)}, sz)
               \cup OutOfRange("res", {i + n - 1 : i \in 0..(sz - n)}, sz)
               \cup OutOfRange("res", Walk(0, n - 1, sz), sz)
    IN  [oob |-> oob,
         res |-> IF oob # {} THEN <<>>
                 ELSE FillNA([k \in 1..sz |->
                                 IF k >= n
                                 THEN max_element(Slice(x, k - n, k), 2,
                                                  x[k - n + 1])
                                 ELSE D(0)],
                             n - 1)]

\* The exact real sum of the elements of x at the 0-based positions
\* b .. e-1, rounded once to a double.
ExactSum(x, b, e) ==
    LET RECURSIVE Total(_, _)
        Total(k, acc) ==
            IF k > e THEN acc
            ELSE Total(k + 1, [hi |-> acc.hi + x[k].hi, lo |-> acc.lo + x[k].lo])
    IN  Round(Total(b + 1, [hi |-> 0, lo |-> 0]))

\* The reference running sum: NA at the positions 0 .. n-2 and
\* x[i-n+1] + ... + x[i] at every position i >= n-1.
RunSumReference(x, n) ==
    [k \in 1..Len(x) |-> IF k < n THEN NA_REAL ELSE ExactSum(x, k - n, k)]

\* The calls R makes: a vector and a window.
RunInit ==
    /\ run_x \in SeqsUpTo(DblVals, MaxLen)
    /\ run_n \in (0 - 1)..(MaxLen + 2)
    /\ run_ret = None
    /\ SirIdle /\ SumIdle /\ SqrtIdle /\ LogIdle /\ BamIdle /\ LexIdle
    /\ SparseIdle /\ PosixIdle /\ FibIdle /\ IpIdle /\ MedIdle /\ NthIdle
    /\ CumIdle

CallRunSum ==
    /\ run_ret = None
    /\ run_ret' = Some([fn |-> "run_sum", val |-> run_sum(run_x, run_n)])
    /\ UNCHANGED <<run_x, run_n>>
    /\ UNCHANGED <<sirVars, sumVars, sqrtVars, logVars, bamVars, lexVars,
                   sparseVars, posixVars, fibVars, ipVars, medVars, nthVars,
                   cumVars>>

CallRunSumV1 ==
    /\ run_ret = None
    /\ run_ret' = Some([fn |-> "run_sum_v1", val |-> run_sum_v1(run_x, run_n)])
    /\ UNCHANGED <<run_x, run_n>>
    /\ UNCHANGED <<sirVars, sumVars, sqrtVars, logVars, bamVars, lexVars,
                   sparseVars, posixVars, fibVars, ipVars, medVars, nthVars,
                   cumVars>>

CallRunSumV2 ==
    /\ run_ret = None
    /\ run_ret' = Some([fn |-> "run_sum_v2", val |-> run_sum_v2(run_x, run_n)])
    /\ UNCHANGED <<run_x, run_n>>
    /\ UNCHANGED <<sirVars, sumVars, sqrtVars, logVars, bamVars, lexVars,
                   sparseVars, posixVars, fibVars, ipVars, medVars, nthVars,
                   cumVars>>

CallRunMin ==
    /\ run_ret = None
    /\ run_ret' = Some([fn |-> "run_min", val |-> run_min(run_x, run_n)])
    /\ UNCHANGED <<run_x, run_n>>
    /\ UNCHANGED <<sirVars, sumVars, sqrtVars, logVars, bamVars, lexVars,
                   sparseVars, posixVars, fibVars, ipVars, medVars, nthVars,
                   cumVars>>

CallRunMax ==
    /\ run_ret = None
    /\ run_ret' = Some([fn |-> "run_max", val |-> run_max(run_x, run_n)])
    /\ UNCHANGED <<run_x, run_n>>
    /\ UNCHANGED <<sirVars, sumVars, sqrtVars, logVars, bamVars, lexVars,
                   sparseVars, posixVars, fibVars, ipVars, medVars, nthVars,
                   cumVars>>

RunNext ==
    \/ CallRunSum \/ CallRunSumV1 \/ CallRunSumV2
    \/ CallRunMin \/ CallRunMax

\* The other programs stay idle.
SpecRun == RunInit /\ [][RunNext]_vars

\* The window is valid: 1 <= n <= sz.
ValidWindow == 1 <= run_n /\ run_n <= Len(run_x)

\* A running sum has returned.
RunSumReturned ==
    /\ run_ret # None
    /\ run_ret[1].fn \in {"run_sum", "run_sum_v1", "run_sum_v2"}

\* C5 as stated: for every vector x and every window 1 <= n <= sz, run_sum,
\* run_sum_v1 and run_sum_v2 return the reference running sum.
C5_RunSumsAreReference ==
    (RunSumReturned /\ ValidWindow) =>
        /\ run_ret[1].val.oob = {}
        /\ run_ret[1].val.res = RunSumReference(run_x, run_n)

\* C5, amended: they do when every partial sum is exact.
C5_RunSumsAreReferenceWhenExact ==
    (RunSumReturned /\ ValidWindow /\ ExactVec(run_x)) =>
        /\ run_ret[1].val.oob = {}
        /\ run_ret[1].val.res = RunSumReference(run_x, run_n)

\* run_sum_v2 has returned the running sum over windows of two of a vector
\* of three integers.
C5_Witness ==
    /\ run_ret # None
    /\ run_ret[1].fn = "run_sum_v2"
    /\ run_x = <<D(1), D(2), D(2)>>
    /\ run_n = 2
    /\ run_ret[1].val.res = <<NA_REAL, D(3), D(4)>>

\* C19: no call of run_sum, run_sum_v2, run_min or run_max, whatever the
\* window n and the vector x, reads or writes an element of x or res at an
\* index outside [0, sz).
C19_NoAccessOutOfRange ==
    (/\ run_ret # None
     /\ run_ret[1].fn \in {"run_sum", "run_sum_v2", "run_min", "run_max"})
        => run_ret[1].val.oob = {}

(***************************************************************************)
(* takeLog, takeLog2 and takeLog3: the logarithm with an error for an      *)
(* inadmissible argument.  A double is <<"int", v>>, <<"inf", 1>>,         *)
(* <<"inf", -1>>, <<"nan", 0>> or, for the logarithm of the integer v > 1, *)
(* <<"log", v>>.  The outcome of a call from R is either a value or an R   *)
(* error with its message.                                                 *)
(***************************************************************************)

\* Bound of the model: the largest magnitude of an integer argument.
MaxVal == 5

LogArgs ==
    {<<"int", v>> : v \in (0 - MaxVal)..MaxVal}
    \cup {<<"inf", 1>>, <<"inf", -1>>, <<"nan", 0>>}

\* val <= 0.0 and val > 0.0 on doubles; both are false for NaN.
LeqZero(val) == (val[1] \in {"int", "inf"}) /\ val[2] <= 0
GtZero(val) == (val[1] \in {"int", "inf"}) /\ val[2] > 0

\* log(val) of <cmath>.
log(val) ==
    IF val[1] = "nan" \/ (val[1] \in {"int", "inf"} /\ val[2] < 0)
        THEN <<"nan", 0>>
    ELSE IF val = <<"int", 0>> THEN <<"inf", -1>>
    ELSE IF val = <<"int", 1>> THEN <<"int", 0>>
    ELSE IF val[1] = "inf" THEN val
    ELSE <<"log", val[2]>>

\* What a call gives R: a value, or an error with a message.
Value(v) == [error |-> FALSE, message |-> "", value |-> Some(v)]
RError(msg) == [error |-> TRUE, message |-> msg, value |-> None]

\* A C++ exception in flight.
Exception(type, what) == [type |-> type, what |-> what]

\* forward_exception_to_r(ex), and the catch of std::exception in the
\* wrapper that sourceCpp() generates: an R error with the text ex.what().
forward_exception_to_r(ex) == RError(ex.what)

\* takeLog, lines 30-42: the exception thrown in the try block is a
\* std::exception, caught by the first handler.
takeLog(val) ==
    LET thrown == IF LeqZero(val)
                  THEN Some(Exception("std::range_error", "Inadmissible value"))
                  ELSE None
    IN  IF thrown # None THEN forward_exception_to_r(thrown[1])
        ELSE Value(log(val))

\* (a check that lets zero through)
takeLog2Strict(val) ==
    IF LeqZero(val) /\ val # <<"int", 0>>
    THEN forward_exception_to_r(
             Exception("std::range_error", "Inadmissible value"))
    ELSE Value(log(val))
\* takeLog2, lines 72-77: the exception leaves the function and is caught
\* by the generated wrapper.
takeLog2(val) ==
    IF LeqZero(val)
    THEN forward_exception_to_r(
             Exception("std::range_error", "Inadmissible value"))
    ELSE Value(log(val))

\* takeLog3, lines 101-106: stop(msg) throws Rcpp::exception(msg), caught
\* by the generated wrapper.
takeLog3(val) ==
    IF LeqZero(val)
    THEN forward_exception_to_r(
             Exception("Rcpp::exception", "Inadmissible value"))
    ELSE Value(log(val))

LogFns == {"takeLog", "takeLog2", "takeLog3"}

\* R calls the three functions, in any order, with one argument.
LogInit ==
    /\ log_val \in LogArgs
    /\ log_ret = [f \in LogFns |-> None]
    /\ SirIdle /\ SumIdle /\ SqrtIdle /\ RunIdle /\ BamIdle /\ LexIdle
    /\ SparseIdle /\ PosixIdle /\ FibIdle /\ IpIdle /\ MedIdle /\ NthIdle
    /\ CumIdle

CallTakeLog ==
    /\ log_ret["takeLog"] = None
    /\ log_ret' = [log_ret EXCEPT !["takeLog"] = Some(takeLog(log_val))]
    /\ UNCHANGED log_val
    /\ UNCHANGED <<sirVars, sumVars, sqrtVars, runVars, bamVars, lexVars,
                   sparseVars, posixVars, fibVars, ipVars, medVars, nthVars,
                   cumVars>>

CallTakeLog2 ==
    /\ log_ret["takeLog2"] = None
    /\ log_ret' = [log_ret EXCEPT !["takeLog2"] = Some(takeLog2(log_val))]
    /\ UNCHANGED log_val
    /\ UNCHANGED <<sirVars, sumVars, sqrtVars, runVars, bamVars, lexVars,
                   sparseVars, posixVars, fibVars, ipVars, medVars, nthVars,
                   cumVars>>

CallTakeLog3 ==
    /\ log_ret["takeLog3"] = None
    /\ log_ret' = [log_ret EXCEPT !["takeLog3"] = Some(takeLog3(log_val))]
    /\ UNCHANGED log_val
    /\ UNCHANGED <<sirVars, sumVars, sqrtVars, runVars, bamVars, lexVars,
                   sparseVars, posixVars, fibVars, ipVars, medVars, nthVars,
                   cumVars>>

LogNext == CallTakeLog \/ CallTakeLog2 \/ CallTakeLog3

\* The other programs stay idle.
SpecLog == LogInit /\ [][LogNext]_vars

\* C7: for val <= 0 each of the three raises an R error with the message
\* "Inadmissible value" and returns no value; for val > 0 each returns
\* log(val) and raises nothing; the three agree on whether an error is
\* raised.
C7_InadmissibleValueError ==
    /\ \A f \in LogFns : log_ret[f] # None =>
          /\ LeqZero(log_val) =>
                /\ log_ret[f][1].error
                /\ log_ret[f][1].message = "Inadmissible value"
                /\ log_ret[f][1].value = None
          /\ GtZero(log_val) =>
                /\ ~log_ret[f][1].error
                /\ log_ret[f][1].value = Some(log(log_val))
    /\ \A f, g \in LogFns : (log_ret[f] # None /\ log_ret[g] # None) =>
          log_ret[f][1].error = log_ret[g][1].error

\* The three functions have been called with 0 and have raised the error.
C7_Witness ==
    /\ log_val = <<"int", 0>>
    /\ \A f \in LogFns : log_ret[f] # None /\ log_ret[f][1].error

(***************************************************************************)
(* BigArmaColSums: column sums of a big.matrix through Armadillo           *)
(* (2014-07-25-using-bigmemory-with-rcpparmadillo.cpp).                    *)
(***************************************************************************)

MaxBigRows == 2
MaxBigCols == 2
MaxSub == 2

\* The missing value of an IntegerVector: INT_MIN.
NA_INTEGER == 0 - 2147483647 - 1

\* matrix_type() of a big.matrix: the bytes of one element.  1 is char,
\* 2 short, 4 int, 8 double; 6 (float) is what the dispatch does not know.
MatrixTypes == {1, 2, 4, 6, 8}

\* The largest value of the signed integer type of the given bytes.
TypeMax(bytes) == 2^(8 * bytes - 1) - 1

\* The element values used: small ones, and for char and short the largest
\* value of the type.
Cells(type) == IF type \in {1, 2} THEN {1, TypeMax(type)} ELSE {1, 2}

\* Element (row, col), 0-based, of the column-major array matrix().
ElementAt(mat, row, col) == mat.matrix[col * mat.nrow + row + 1]

\* x < 1 and x > n on an integer of an IntegerVector: NA for NA.
LessThan(x, n) ==
    IF x = NA_INTEGER THEN "NA" ELSE IF x < n THEN "TRUE" ELSE "FALSE"
GreaterThan(x, n) ==
    IF x = NA_INTEGER THEN "NA" ELSE IF x > n THEN "TRUE" ELSE "FALSE"

\* Rcpp sugar any(): TRUE when an element is TRUE, else NA when an element
\* is NA, else FALSE.  is_true(): only for TRUE.
any(lv) ==
    IF \E k \in DOMAIN lv : lv[k] = "TRUE" THEN "TRUE"
    ELSE IF \E k \in DOMAIN lv : lv[k] = "NA" THEN "NA"
    ELSE "FALSE"
is_true(l) == l = "TRUE"

\* Line 96: is_true(any(subsetCols < 1)).
AnyBelowOne(cols) ==
    is_true(any([k \in DOMAIN cols |-> LessThan(cols[k], 1)]))

\* (an upper limit that is one too large)
AnyAboveNcolLoose(cols, ncol) ==
    is_true(any([k \in DOMAIN cols |-> GreaterThan(cols[k], ncol + 1)]))
\* Line 97: is_true(any(subsetCols > xpMat->ncol())).
AnyAboveNcol(cols, ncol) ==
    is_true(any([k \in DOMAIN cols |-> GreaterThan(cols[k], ncol)]))

\* as<uvec>(NA_INTEGER) - 1: INT_MIN converted to the unsigned uword, less
\* one, is an index of at least 2^31 - 1, whatever the width of uword.
HugeIndex == 2147483647

\* Line 75: uvec colidx = as<uvec>(subsetCols) - 1.  The range check lets
\* only NA and the values 1 .. ncol reach this line.
ColIdx(cols) ==
    [k \in DOMAIN cols |->
        IF cols[k] = NA_INTEGER THEN HugeIndex ELSE cols[k] - 1]

\* The outcome of a call: the exception that left it or the value returned,
\* whether its behaviour was undefined, and the column indices with which
\* the matrix memory was read.
Thrown(ex) ==
    [thrown |-> Some(ex), value |-> None, undefined |-> FALSE, reads |-> {}]
Returned(v, reads) ==
    [thrown |-> None, value |-> Some(v), undefined |-> FALSE, reads |-> reads]
Undefined(reads) ==
    [thrown |-> None, value |-> None, undefined |-> TRUE, reads |-> reads]

RECURSIVE ColumnTotal(_, _, _)
\* The arithmetic sum of the first n elements of column col.
ColumnTotal(mat, col, n) ==
    IF n = 0 THEN 0
    ELSE ColumnTotal(mat, col, n - 1) + ElementAt(mat, n - 1, col)

\* A value brought into the range of the signed integer type of the given
\* bytes, as the conversion of the int sum back to char or short does.
Wrap(v, bytes) ==
    LET m == 2^(8 * bytes)
        r == v % m
    IN  IF r > TypeMax(bytes) THEN r - m ELSE r

\* sum() of one column in the element type T: Col<char> and Col<short>
\* hold the sum in 8 and 16 bits.  The int and double sums of the model
\* stay far inside their types.
SumInT(type, mat, col) ==
    IF type \in {1, 2} THEN Wrap(ColumnTotal(mat, col, mat.nrow), type)
    ELSE ColumnTotal(mat, col, mat.nrow)

\* BigArmaColSums<T>, lines 67-80.  An index outside the matrix either
\* fails Armadillo's bounds check or, in a build without the check
\* (ARMA_NO_DEBUG), reads outside the matrix memory.
BigArmaColSumsT(type, mat, cols) ==
    LET colidx == ColIdx(cols)
        used == {colidx[k] : k \in DOMAIN colidx}
    IN  IF \E c \in used : c >= mat.ncol
        THEN {Thrown(Exception("std::logic_error", "index out of bounds")),
              Undefined(used)}
        ELSE {Returned([k \in DOMAIN colidx |-> SumInT(type, mat, colidx[k])],
                       used)}

\* BigArmaColSums, lines 88-144: the range check, then the dispatch on the
\* element type.
BigArmaColSums(mat, cols) ==
    IF AnyBelowOne(cols) \/ AnyAboveNcol(cols, mat.ncol)
    THEN {Thrown(Exception("std::out_of_range",
                 "Some of requested columns are outside of the matrix!"))}
    ELSE IF mat.matrix_type \in {1, 2, 4, 8}
    THEN BigArmaColSumsT(mat.matrix_type, mat, cols)
    ELSE {Thrown(Exception("Rcpp::exception",
                 "Undefined type for provided big.matrix"))}

\* colSums(m[, subsetCols]) of R, for column numbers inside the matrix.
colSums(mat, cols) ==
    [k \in DOMAIN cols |-> ColumnTotal(mat, cols[k] - 1, mat.nrow)]

\* R calls BigArmaColSums with a big.matrix and a vector of column numbers.
BamInit ==
    /\ \E t \in MatrixTypes, nr \in 1..MaxBigRows, nc \in 1..MaxBigCols :
          /\ \E d \in [1..(nr * nc) -> Cells(t)] :
                pBigMat = [matrix_type |-> t, nrow |-> nr, ncol |-> nc,
                           matrix |-> d]
          /\ subsetCols \in SeqsUpTo({NA_INTEGER} \cup 0..(nc + 1), MaxSub)
    /\ bigRet = None
    /\ SirIdle /\ SumIdle /\ SqrtIdle /\ RunIdle /\ LogIdle /\ LexIdle
    /\ SparseIdle /\ PosixIdle /\ FibIdle /\ IpIdle /\ MedIdle /\ NthIdle
    /\ CumIdle

CallBigArmaColSums ==
    /\ bigRet = None
    /\ \E o \in BigArmaColSums(pBigMat, subsetCols) : bigRet' = Some(o)
    /\ UNCHANGED <<pBigMat, subsetCols>>
    /\ UNCHANGED <<sirVars, sumVars, sqrtVars, runVars, logVars, lexVars,
                   sparseVars, posixVars, fibVars, ipVars, medVars, nthVars,
                   cumVars>>

BamNext == CallBigArmaColSums

\* The other programs stay idle.
SpecBam == BamInit /\ [][BamNext]_vars

\* An entry below 1 or above ncol; every entry in 1 .. ncol.
SomeOutside(cols, ncol) ==
    \E k \in DOMAIN cols :
        cols[k] # NA_INTEGER /\ (cols[k] < 1 \/ cols[k] > ncol)
AllInside(cols, ncol) ==
    \A k \in DOMAIN cols : cols[k] \in 1..ncol

C9_ExactColumnSums ==
    bigRet # None =>
        /\ (/\ pBigMat.matrix_type \in {1, 2, 4, 8}
            /\ AllInside(subsetCols, pBigMat.ncol)) =>
              bigRet[1].value = Some(colSums(pBigMat, subsetCols))
        /\ pBigMat.matrix_type \notin {1, 2, 4, 8} =>
              bigRet[1].thrown # None

(***************************************************************************)
(* lexicalCast: strings to doubles with boost::lexical_cast                *)
(* (2013-01-15-a-second-boost-example.cpp).                                *)
(* A string is a sequence of characters.  The double that a numeral        *)
(* converts to is written as the decimal mant * 10^exp it is nearest to,   *)
(* without trailing zeros in mant.                                         *)
(***************************************************************************)

MaxVecLen == 2

\* The strings of the R test, line 67, then the empty string, a negative
\* numeral and a numeral with an exponent.
LexStrings ==
    { <<"1", ".", "2", "3">>, <<".", "4">>, <<"1", "0", "0", "0">>,
      <<"f", "o", "o">>, <<"4", "2">>, <<"p", "i", "/", "4">>,
      <<>>, <<"-", "7">>, <<"1", "e", "3">> }

RECURSIVE Decimal(_, _)
\* mant * 10^exp without trailing zeros in mant.
Decimal(mant, exp) ==
    IF mant = 0 THEN [mant |-> 0, exp |-> 0]
    ELSE IF mant % 10 = 0 THEN Decimal(mant \div 10, exp + 1)
    ELSE [mant |-> mant, exp |-> exp]

\* lexical_cast<double>(s): the whole string has to be a numeral, that is
\* an optional sign, digits with an optional point among them, and an
\* optional exponent; the result is None when bad_lexical_cast is thrown.
\* (The spellings of infinity and NaN, which it also converts, are not
\* among the strings of the model.)
lexical_cast(s) ==
    LET DigitChars == <<"0", "1", "2", "3", "4", "5", "6", "7", "8", "9">>
        IsDigit(c) == \E d \in 1..10 : DigitChars[d] = c
        DigitValue(c) == (CHOOSE d \in 1..10 : DigitChars[d] = c) - 1
        \* The first position from k on that holds no digit.
        RECURSIVE DigitsEnd(_)
        DigitsEnd(k) ==
            IF k <= Len(s) /\ IsDigit(s[k]) THEN DigitsEnd(k + 1) ELSE k
        \* The number written by the digits at the positions b .. e-1.
        RECURSIVE DigitsValue(_, _)
        DigitsValue(b, e) ==
            IF e <= b THEN 0
            ELSE 10 * DigitsValue(b, e - 1) + DigitValue(s[e - 1])
        n == Len(s)
        signed == n >= 1 /\ s[1] \in {"+", "-"}
        negative == n >= 1 /\ s[1] = "-"
        p1 == IF signed THEN 2 ELSE 1
        p2 == DigitsEnd(p1)
        hasPoint == p2 <= n /\ s[p2] = "."
        p3 == IF hasPoint THEN p2 + 1 ELSE p2
        p4 == DigitsEnd(p3)
        hasExp == p4 <= n /\ s[p4] \in {"e", "E"}
        expSigned == hasExp /\ p4 + 1 <= n /\ s[p4 + 1] \in {"+", "-"}
        expNegative == expSigned /\ s[p4 + 1] = "-"
        p5 == IF ~hasExp THEN p4 ELSE IF expSigned THEN p4 + 2 ELSE p4 + 1
        p6 == DigitsEnd(p5)
        mant == DigitsValue(p1, p2) * 10^(p4 - p3)
                    + DigitsValue(p3, p4)
        exp == IF expNegative THEN 0 - DigitsValue(p5, p6)
               ELSE DigitsValue(p5, p6)
        numeral == /\ (p2 - p1) + (p4 - p3) >= 1
                   /\ hasExp => p6 > p5
                   /\ p6 = n + 1
    IN  IF numeral
        THEN Some(Decimal(IF negative THEN 0 - mant ELSE mant,
                          exp - (p4 - p3)))
        ELSE None

\* (a handler that catches nothing)
CatchesNothing(ex) == FALSE
\* Line 48: catch(bad_lexical_cast &).
Catches(ex) == ex.type = "boost::bad_lexical_cast"

\* R calls lexicalCast(v); line 43: res has v.size() elements of 0.0.
LexInit ==
    /\ lex_v \in SeqsUpTo(LexStrings, MaxVecLen)
    /\ lex_res = [k \in 1..Len(lex_v) |-> Decimal(0, 0)]
    /\ lex_i = 0
    /\ lex_ret = None
    /\ SirIdle /\ SumIdle /\ SqrtIdle /\ RunIdle /\ LogIdle /\ BamIdle
    /\ SparseIdle /\ PosixIdle /\ FibIdle /\ IpIdle /\ MedIdle /\ NthIdle
    /\ CumIdle

\* One turn of the loop, lines 45-51.  An exception that the handler does
\* not catch leaves the function and becomes an R error.
LexLoop ==
    /\ lex_ret = None
    /\ lex_i < Len(lex_v)
    /\ LET cast == lexical_cast(lex_v[lex_i + 1])
           ex == Exception("boost::bad_lexical_cast",
                           "bad lexical cast")
       IN  IF cast # None
           THEN /\ lex_res' = [lex_res EXCEPT ![lex_i + 1] = cast[1]]
                /\ lex_i' = lex_i + 1
                /\ UNCHANGED lex_ret
           ELSE IF Catches(ex)
           THEN /\ lex_res' = [lex_res EXCEPT ![lex_i + 1] = NA_REAL]
                /\ lex_i' = lex_i + 1
                /\ UNCHANGED lex_ret
           ELSE /\ lex_ret' = Some(forward_exception_to_r(ex))
                /\ UNCHANGED <<lex_res, lex_i>>
    /\ UNCHANGED lex_v
    /\ UNCHANGED <<sirVars, sumVars, sqrtVars, runVars, logVars, bamVars,
                   sparseVars, posixVars, fibVars, ipVars, medVars, nthVars,
                   cumVars>>

\* Line 53: return res.
LexReturn ==
    /\ lex_ret = None
    /\ lex_i >= Len(lex_v)
    /\ lex_ret' = Some(Value(lex_res))
    /\ UNCHANGED <<lex_v, lex_res, lex_i>>
    /\ UNCHANGED <<sirVars, sumVars, sqrtVars, runVars, logVars, bamVars,
                   sparseVars, posixVars, fibVars, ipVars, medVars, nthVars,
                   cumVars>>

LexNext == LexLoop \/ LexReturn

\* The other programs stay idle.
SpecLex == LexInit /\ [][LexNext]_vars

\* What position k of the result has to hold: the number when v[k] is
\* convertible, NA when it is not.
LexExpected(s) ==
    IF lexical_cast(s) # None THEN lexical_cast(s)[1] ELSE NA_REAL

\* C10: the positions already converted hold the parsed number or NA and
\* keep it while the later ones are converted, whether or not those fail;
\* the call raises no error and returns a vector of the length of v with
\* these values.
C10_NAWhereNotConvertible ==
    /\ Len(lex_res) = Len(lex_v)
    /\ \A k \in 1..lex_i : lex_res[k] = LexExpected(lex_v[k])
    /\ lex_ret # None =>
          /\ ~lex_ret[1].error
          /\ lex_ret[1].value # None
          /\ Len(lex_ret[1].value[1]) = Len(lex_v)
          /\ \A k \in 1..Len(lex_v) :
                lex_ret[1].value[1][k] = LexExpected(lex_v[k])

\* "foo" then "1.23" has returned NA then 1.23, and "1e3" then ".4" has
\* returned 1000 then 0.4.
C10_Witness ==
    /\ lex_ret # None
    /\ \/ /\ lex_v = << <<"f", "o", "o">>, <<"1", ".", "2", "3">> >>
          /\ lex_ret[1].value =
                Some(<<NA_REAL, [mant |-> 123, exp |-> 0 - 2]>>)
       \/ /\ lex_v = << <<"1", "e", "3">>, <<".", "4">> >>
          /\ lex_ret[1].value =
                Some(<<[mant |-> 1, exp |-> 3], [mant |-> 4, exp |-> 0 - 1]>>)

(***************************************************************************)
(* dgCMatrix: a sparse matrix in compressed sparse column form             *)
(* (_posts/RcppSparse.h).                                                  *)
(* The object is the record of its fields i, p, x, Dim and Dimnames.  The  *)
(* vectors are sequences; element k (0-based) of a vector a is a[k + 1].   *)
(* x holds integer-valued doubles small enough for their sums and products *)
(* to be exact.  operator[] of an Rcpp vector does not check its index: a  *)
(* read outside the vector makes the result undefined (None below), a      *)
(* write outside the vector may land on any other memory.                  *)
(***************************************************************************)

MaxSpRows == 2
MaxSpCols == 2
MaxNnz == 2

InRange(a, k) == k >= 0 /\ k < Len(a)
Elem(a, k) == a[k + 1]

\* NumericVector v(n) and v(n, 0.0): n zeros.
ZeroVector(n) == [k \in 1..n |-> 0]

\* The slots of the dgCMatrix that R's Matrix package makes of the nr x nc
\* matrix whose nonzero cells are the set S of <<row, col>>: the value in
\* the cell <<r, c>> is 1 + r + nr * c.
SlotsOf(nr, nc, S) ==
    LET order == [k \in 1..(nr * nc) |-> <<(k - 1) % nr, (k - 1) \div nr>>]
        cells == SelectSeq(order, LAMBDA cell : cell \in S)
    IN  [i |-> [k \in 1..Len(cells) |-> cells[k][1]],
         p |-> [c \in 1..(nc + 1) |->
                   Cardinality({cell \in S : cell[2] < c - 1})],
         x |-> [k \in 1..Len(cells) |-> 1 + cells[k][1] + nr * cells[k][2]],
         nrow |-> nr,
         Dim |-> <<nr, nc>>,
         Dimnames |-> <<"NULL", "NULL">>]

\* Slots that are not those of a valid matrix, and that no constructor
\* rejects: the row indices in reverse order, a value missing, a row index
\* equal to nrow, a last column pointer beyond the arrays, a Dim slot with
\* one column more than p has.
Defects == {"none", "unsorted", "short x", "row", "pointer", "Dim"}
WithDefect(a, d) ==
    CASE d = "none" -> a
      [] d = "unsorted" ->
            [a EXCEPT !.i = [k \in 1..Len(a.i) |-> a.i[Len(a.i) + 1 - k]]]
      [] d = "short x" ->
            [a EXCEPT !.x = IF a.x = <<>> THEN a.x
                            ELSE SubSeq(a.x, 1, Len(a.x) - 1)]
      [] d = "row" ->
            [a EXCEPT !.i = IF a.i = <<>> THEN a.i
                            ELSE [a.i EXCEPT ![Len(a.i)] = a.nrow]]
      [] d = "pointer" -> [a EXCEPT !.p[Len(a.p)] = a.p[Len(a.p)] + 1]
      [] d = "Dim" -> [a EXCEPT !.Dim[2] = a.Dim[2] + 1]

\* The three constructors, lines 17-36: the fields share the vectors given;
\* nothing is checked.
dgCMatrix(A_i, A_p, A_x, nrow) ==
    [i |-> A_i, p |-> A_p, x |-> A_x, Dim |-> <<nrow, Len(A_p) - 1>>,
     Dimnames |-> <<>>]
dgCMatrixNamed(A_i, A_p, A_x, nrow, A_Dimnames) ==
    [i |-> A_i, p |-> A_p, x |-> A_x, Dim |-> <<nrow, Len(A_p) - 1>>,
     Dimnames |-> A_Dimnames]
dgCMatrixS4(mat) ==
    [i |-> mat.i, p |-> mat.p, x |-> mat.x, Dim |-> mat.Dim,
     Dimnames |-> mat.Dimnames]

\* sum(), line 45: Rcpp::sum(x).
dgCMatrix_sum(m) ==
    LET RECURSIVE SumOf(_)
        SumOf(v) == IF v = <<>> THEN 0 ELSE Head(v) + SumOf(Tail(v))
    IN  SumOf(m.x)

\* at(row, col), lines 72-78; AtLoop is the loop from j on.
dgCMatrix_at(m, r, c) ==
    LET RECURSIVE AtLoop(_, _)
        AtLoop(j, jend) ==
            IF j >= jend THEN Some(0)
            ELSE IF ~InRange(m.i, j) THEN None
            ELSE IF Elem(m.i, j) = r
            THEN IF InRange(m.x, j) THEN Some(Elem(m.x, j)) ELSE None
            ELSE IF Elem(m.i, j) > r THEN Some(0)
            ELSE AtLoop(j + 1, jend)
    IN  IF ~InRange(m.p, c) \/ ~InRange(m.p, c + 1) THEN None
        ELSE AtLoop(Elem(m.p, c), Elem(m.p, c + 1))

\* A vector of results: undefined when one of them is.
AllDefined(rs) ==
    IF \E k \in DOMAIN rs : rs[k] = None THEN None
    ELSE Some([k \in DOMAIN rs |-> rs[k][1]])

\* operator()(int, IntegerVector&), lines 80-84.
dgCMatrix_call_row_cols(m, r, cv) ==
    AllDefined([k \in DOMAIN cv |-> dgCMatrix_at(m, r, cv[k])])
\* operator()(IntegerVector&, int), lines 85-89.
dgCMatrix_call_rows_col(m, rv, c) ==
    AllDefined([k \in DOMAIN rv |-> dgCMatrix_at(m, rv[k], c)])
\* operator()(IntegerVector&, IntegerVector&), lines 90-96: the matrix as
\* the vector of its rows.
dgCMatrix_call_rows_cols(m, rv, cv) ==
    AllDefined([j \in DOMAIN rv |-> dgCMatrix_call_row_cols(m, rv[j], cv)])

\* col(col), lines 99-104; ColLoop is the loop from j on.  vec is the
\* vector c, stray the values written outside it, undef whether a read was
\* outside a vector.
dgCMatrix_col(m, c) ==
    LET start == [vec |-> ZeroVector(m.Dim[1]), stray |-> {},
                  undef |-> FALSE]
        RECURSIVE ColLoop(_, _, _)
        ColLoop(acc, j, jend) ==
            IF j >= jend THEN acc
            ELSE IF ~InRange(m.i, j) \/ ~InRange(m.x, j)
            THEN [acc EXCEPT !.undef = TRUE]
            ELSE IF InRange(acc.vec, Elem(m.i, j))
            THEN ColLoop([acc EXCEPT !.vec[Elem(m.i, j) + 1] = Elem(m.x, j)],
                         j + 1, jend)
            ELSE ColLoop([acc EXCEPT !.stray = @ \cup {Elem(m.x, j)}],
                         j + 1, jend)
    IN  IF ~InRange(m.p, c) \/ ~InRange(m.p, c + 1)
        THEN [start EXCEPT !.undef = TRUE]
        ELSE ColLoop(start, Elem(m.p, c), Elem(m.p, c + 1))

\* cols(c), lines 106-112: the matrix as the vector of its columns.
dgCMatrix_cols(m, cv) ==
    LET each == [k \in DOMAIN cv |-> dgCMatrix_col(m, cv[k])]
    IN  [vec |-> [k \in DOMAIN cv |-> each[k].vec],
         stray |-> UNION {each[k].stray : k \in DOMAIN cv},
         undef |-> \E k \in DOMAIN cv : each[k].undef]

\* (a row() that finds no element)
dgCMatrix_row_empty(m, r) == Some(ZeroVector(m.Dim[2]))
\* row(row), lines 116-125; RowLoop is the inner loop from j on, cur the
\* value of r[col].
dgCMatrix_row(m, r) ==
    LET RECURSIVE RowLoop(_, _, _)
        RowLoop(j, jend, cur) ==
            IF j >= jend THEN Some(cur)
            ELSE IF ~InRange(m.i, j) THEN None
            ELSE IF Elem(m.i, j) = r
            THEN IF InRange(m.x, j)
                 THEN RowLoop(j + 1, jend, Elem(m.x, j))
                 ELSE None
            ELSE IF Elem(m.i, j) > r THEN Some(cur)
            ELSE RowLoop(j + 1, jend, cur)
    IN  AllDefined([c \in 1..m.Dim[2] |->
            IF ~InRange(m.p, c - 1) \/ ~InRange(m.p, c) THEN None
            ELSE RowLoop(Elem(m.p, c - 1), Elem(m.p, c), 0)])

\* rows(r), lines 126-132: the matrix as the vector of its rows.
dgCMatrix_rows(m, rv) ==
    AllDefined([k \in DOMAIN rv |-> dgCMatrix_row(m, rv[k])])

\* colSums(), lines 135-141; ColSumLoop is the inner loop from j on.
dgCMatrix_colSums(m) ==
    LET RECURSIVE ColSumLoop(_, _, _)
        ColSumLoop(j, jend, acc) ==
            IF j >= jend THEN Some(acc)
            ELSE IF ~InRange(m.x, j) THEN None
            ELSE ColSumLoop(j + 1, jend, acc + Elem(m.x, j))
    IN  AllDefined([c \in 1..m.Dim[2] |->
            IF ~InRange(m.p, c - 1) \/ ~InRange(m.p, c) THEN None
            ELSE ColSumLoop(Elem(m.p, c - 1), Elem(m.p, c), 0)])

\* rowSums(), lines 142-148; RowSumLoop is the inner loop from j on and
\* RowSumCols the outer loop from column c on.  sums(i[j]) checks its
\* index and throws index_out_of_bounds.
dgCMatrix_rowSums(m) ==
    LET RECURSIVE RowSumLoop(_, _, _)
        RowSumLoop(acc, j, jend) ==
            IF j >= jend THEN acc
            ELSE IF ~InRange(m.i, j) \/ ~InRange(m.x, j)
            THEN [acc EXCEPT !.status = "undefined"]
            ELSE IF ~InRange(acc.sums, Elem(m.i, j))
            THEN [acc EXCEPT !.status = "thrown"]
            ELSE RowSumLoop(
                     [acc EXCEPT !.sums[Elem(m.i, j) + 1] = @ + Elem(m.x, j)],
                     j + 1, jend)
        RECURSIVE RowSumCols(_, _)
        RowSumCols(acc, c) ==
            IF acc.status # "ok" \/ c >= m.Dim[2] THEN acc
            ELSE IF ~InRange(m.p, c) \/ ~InRange(m.p, c + 1)
            THEN [acc EXCEPT !.status = "undefined"]
            ELSE RowSumCols(
                     RowSumLoop(acc, Elem(m.p, c), Elem(m.p, c + 1)), c + 1)
    IN  RowSumCols([sums |-> ZeroVector(m.Dim[1]), status |-> "ok"], 0)

\* The quotient num / den of two doubles.
Quotient(num, den) == [num |-> num, den |-> den]

\* colMeans() and rowMeans(), lines 149-158.
dgCMatrix_colMeans(m) ==
    LET sums == dgCMatrix_colSums(m)
    IN  IF sums = None THEN None
        ELSE Some([k \in DOMAIN sums[1] |-> Quotient(sums[1][k], m.Dim[1])])
dgCMatrix_rowMeans(m) ==
    LET acc == dgCMatrix_rowSums(m)
    IN  [acc EXCEPT !.sums =
            [k \in DOMAIN acc.sums |-> Quotient(acc.sums[k], m.Dim[2])]]

\* crossprod(), lines 161-191: the matrix as the vector of its rows.
\* SquaresLoop is the loop of lines 169-170, MergeLoop the while loop of
\* lines 174-185, and Advance the do-while loops of lines 181 and 183
\* after their first ++ind: do { ++ind; } while (i[ind] < bound &&
\* ind < max) reads i[ind] before it compares ind with max.  CrossCell is
\* the cell (col1, col2) of the result, col1 <= col2.
dgCMatrix_crossprod(m) ==
    LET RECURSIVE SquaresLoop(_, _, _)
        SquaresLoop(j, jend, acc) ==
            IF j >= jend THEN Some(acc)
            ELSE IF ~InRange(m.x, j) THEN None
            ELSE SquaresLoop(j + 1, jend, acc + Elem(m.x, j) * Elem(m.x, j))
        RECURSIVE Advance(_, _, _)
        Advance(ind, bound, max) ==
            IF ~InRange(m.i, ind) THEN None
            ELSE IF Elem(m.i, ind) < bound /\ ind < max
            THEN Advance(ind + 1, bound, max)
            ELSE Some(ind)
        RECURSIVE MergeLoop(_, _, _, _, _)
        MergeLoop(ind1, max1, ind2, max2, acc) ==
            IF ~(ind1 < max1 /\ ind2 < max2) THEN Some(acc)
            ELSE IF ~InRange(m.i, ind1) \/ ~InRange(m.i, ind2) THEN None
            ELSE LET row1 == Elem(m.i, ind1)
                     row2 == Elem(m.i, ind2)
                 IN  IF row1 = row2
                     THEN IF InRange(m.x, ind1) /\ InRange(m.x, ind2)
                          THEN MergeLoop(ind1 + 1, max1, ind2 + 1, max2,
                                   acc + Elem(m.x, ind1) * Elem(m.x, ind2))
                          ELSE None
                     ELSE IF row1 < row2
                     THEN LET next == Advance(ind1 + 1, row2, max1)
                          IN  IF next = None THEN None
                              ELSE MergeLoop(next[1], max1, ind2, max2, acc)
                     ELSE LET next == Advance(ind2 + 1, row1, max2)
                          IN  IF next = None THEN None
                              ELSE MergeLoop(ind1, max1, next[1], max2, acc)
        CrossCell(col1, col2) ==
            IF \E c \in {col1, col1 + 1, col2, col2 + 1} : ~InRange(m.p, c)
            THEN None
            ELSE IF col1 = col2
            THEN SquaresLoop(Elem(m.p, col1), Elem(m.p, col1 + 1), 0)
            ELSE MergeLoop(Elem(m.p, col1), Elem(m.p, col1 + 1),
                           Elem(m.p, col2), Elem(m.p, col2 + 1), 0)
    IN  AllDefined([r \in 1..m.Dim[2] |->
            AllDefined([c \in 1..m.Dim[2] |->
                CrossCell(Min(r, c) - 1, (r + c) - Min(r, c) - 1)])])

\* The row and column numbers, and the index vectors, given to the calls:
\* each set holds numbers inside and outside the matrix.
RowArgs == 0..MaxSpRows
ColArgs == 0..MaxSpCols
IndexVectors == {<<>>, <<0>>, <<1, 0>>}

\* An out-of-range write of col(): it may land nowhere that matters, on
\* an element of x (which then holds the value written), or on an element
\* of i, p or Dim (which then holds the low word of a small integer-valued
\* double, 0).
StrayWrite(m, values) ==
    {m}
    \cup {[m EXCEPT !.x[k] = w] : k \in DOMAIN m.x, w \in values}
    \cup {[m EXCEPT !.i[k] = 0] : k \in DOMAIN m.i}
    \cup {[m EXCEPT !.p[k] = 0] : k \in DOMAIN m.p}
    \cup {[m EXCEPT !.Dim[k] = 0] : k \in DOMAIN m.Dim}

\* The four arrays of the object.
Arrays(m) == [i |-> m.i, p |-> m.p, x |-> m.x, Dim |-> m.Dim]

\* A finished call: the operation, its arguments and its outcome.
Call(op, args, out) == [op |-> op, args |-> args, out |-> out]

\* A value, or the arguments of a call, of the given C++ type.
Typed(type, v) == [t \in {type} |-> v]
Outcome(type, r) ==
    IF r = None THEN Undefined({}) ELSE Returned(Typed(type, r[1]), {})

\* The slots, or arrays, that the constructors are given; the other
\* programs stay idle.
SparseInit ==
    /\ \E nr \in 1..MaxSpRows, nc \in 1..MaxSpCols, d \in Defects :
          \E S \in SUBSET ((0..(nr - 1)) \X (0..(nc - 1))) :
              /\ Cardinality(S) <= MaxNnz
              /\ sp_args = WithDefect(SlotsOf(nr, nc, S), d)
    /\ sp_mat = None
    /\ sp_made = None
    /\ sp_ret = None
    /\ SirIdle /\ SumIdle /\ SqrtIdle /\ RunIdle /\ LogIdle /\ BamIdle
    /\ LexIdle /\ PosixIdle /\ FibIdle /\ IpIdle /\ MedIdle /\ NthIdle
    /\ CumIdle

Constructed(m) ==
    /\ sp_mat = None
    /\ sp_mat' = Some(m)
    /\ sp_made' = Some(Arrays(m))
    /\ UNCHANGED <<sp_args, sp_ret>>
    /\ UNCHANGED <<sirVars, sumVars, sqrtVars, runVars, logVars, bamVars,
                   lexVars, posixVars, fibVars, ipVars, medVars, nthVars,
                   cumVars>>

ConstructFromArrays ==
    Constructed(dgCMatrix(sp_args.i, sp_args.p, sp_args.x, sp_args.nrow))
ConstructWithDimnames ==
    Constructed(dgCMatrixNamed(sp_args.i, sp_args.p, sp_args.x,
                               sp_args.nrow, sp_args.Dimnames))
ConstructFromS4 == Constructed(dgCMatrixS4(sp_args))

\* The object is there and no call is under way.
Ready == sp_mat # None /\ sp_ret = None

\* A call that leaves the object alone.
Return(op, args, out) ==
    /\ sp_ret' = Some(Call(op, args, out))
    /\ UNCHANGED <<sp_args, sp_mat, sp_made>>
    /\ UNCHANGED <<sirVars, sumVars, sqrtVars, runVars, logVars, bamVars,
                   lexVars, posixVars, fibVars, ipVars, medVars, nthVars,
                   cumVars>>

\* The return of col() and cols(): after a read or a write outside a
\* vector the behaviour is undefined, and the write may have changed the
\* object.
ReturnColumns(op, args, type, res) ==
    IF res.undef \/ res.stray # {}
    THEN /\ sp_ret' = Some(Call(op, args, Undefined({})))
         /\ \E m \in StrayWrite(sp_mat[1],
                        res.stray \cup (IF res.undef THEN {0} ELSE {})) :
               sp_mat' = Some(m)
         /\ UNCHANGED <<sp_args, sp_made>>
         /\ UNCHANGED <<sirVars, sumVars, sqrtVars, runVars, logVars, bamVars,
                        lexVars, posixVars, fibVars, ipVars, medVars, nthVars,
                        cumVars>>
    ELSE Return(op, args, Returned(Typed(type, res.vec), {}))

\* The return of rowSums() and rowMeans().
SumsOutcome(acc) ==
    CASE acc.status = "ok" -> Returned(Typed("NumericVector", acc.sums), {})
      [] acc.status = "undefined" -> Undefined({})
      [] acc.status = "thrown" ->
            Thrown(Exception("Rcpp::index_out_of_bounds",
                             "Index out of bounds"))

\* nrow(), ncol(), n_nonzero(), nonzeros() and sum(), lines 39-45.
CallProperty ==
    /\ Ready
    /\ LET m == sp_mat[1]
       IN  \/ Return("nrow", Typed("void", <<>>),
                     Outcome("int", Some(m.Dim[1])))
           \/ Return("ncol", Typed("void", <<>>),
                     Outcome("int", Some(m.Dim[2])))
           \/ Return("n_nonzero", Typed("void", <<>>),
                     Outcome("int", Some(Len(m.x))))
           \/ Return("nonzeros", Typed("void", <<>>),
                     Outcome("NumericVector", Some(m.x)))
           \/ Return("sum", Typed("void", <<>>),
                     Outcome("double", Some(dgCMatrix_sum(m))))

\* at(row, col), and operator()(int, int), which calls it.
CallAt ==
    /\ Ready
    /\ \E r \in RowArgs, c \in ColArgs :
          Return("at", Typed("int, int", <<r, c>>),
                 Outcome("double", dgCMatrix_at(sp_mat[1], r, c)))

CallRowCols ==
    /\ Ready
    /\ \E r \in RowArgs, cv \in IndexVectors :
          Return("operator()", Typed("int, IntegerVector", <<<<r>>, cv>>),
                 Outcome("NumericVector",
                         dgCMatrix_call_row_cols(sp_mat[1], r, cv)))

CallRowsCol ==
    /\ Ready
    /\ \E rv \in IndexVectors, c \in ColArgs :
          Return("operator()", Typed("IntegerVector, int", <<rv, <<c>>>>),
                 Outcome("NumericVector",
                         dgCMatrix_call_rows_col(sp_mat[1], rv, c)))

CallRowsCols ==
    /\ Ready
    /\ \E rv \in IndexVectors, cv \in IndexVectors :
          Return("operator()",
                 Typed("IntegerVector, IntegerVector", <<rv, cv>>),
                 Outcome("NumericMatrix",
                         dgCMatrix_call_rows_cols(sp_mat[1], rv, cv)))

\* col(col), and column(c), which calls it.
CallCol ==
    /\ Ready
    /\ \E c \in ColArgs :
          ReturnColumns("col", Typed("int", <<c>>), "NumericVector",
                        dgCMatrix_col(sp_mat[1], c))

\* cols(c), and columns(c), which calls it.
CallCols ==
    /\ Ready
    /\ \E cv \in IndexVectors :
          ReturnColumns("cols", Typed("IntegerVector", <<cv>>),
                        "NumericMatrix", dgCMatrix_cols(sp_mat[1], cv))

CallRow ==
    /\ Ready
    /\ \E r \in RowArgs :
          Return("row", Typed("int", <<r>>),
                 Outcome("NumericVector", dgCMatrix_row(sp_mat[1], r)))

CallRows ==
    /\ Ready
    /\ \E rv \in IndexVectors :
          Return("rows", Typed("IntegerVector", <<rv>>),
                 Outcome("NumericMatrix", dgCMatrix_rows(sp_mat[1], rv)))

CallColSums ==
    Ready /\ Return("colSums", Typed("void", <<>>),
                    Outcome("NumericVector", dgCMatrix_colSums(sp_mat[1])))

CallRowSums ==
    Ready /\ Return("rowSums", Typed("void", <<>>),
                    SumsOutcome(dgCMatrix_rowSums(sp_mat[1])))

CallColMeans ==
    Ready /\ Return("colMeans", Typed("void", <<>>),
                    Outcome("NumericVector", dgCMatrix_colMeans(sp_mat[1])))

CallRowMeans ==
    Ready /\ Return("rowMeans", Typed("void", <<>>),
                    SumsOutcome(dgCMatrix_rowMeans(sp_mat[1])))

CallCrossprod ==
    Ready /\ Return("crossprod", Typed("void", <<>>),
                    Outcome("NumericMatrix", dgCMatrix_crossprod(sp_mat[1])))

\* A const_iterator: its index; it refers to the object.
Iterator(index) == Typed("const_iterator", [index |-> index])

\* begin(j), end(j), begin_col(j) and end_col(j), lines 66-69.
CallBegin ==
    /\ Ready
    /\ \E j \in ColArgs :
          LET m == sp_mat[1]
          IN  \/ Return("begin", Typed("int", <<j>>),
                        Returned(Iterator(0), {}))
              \/ Return("end", Typed("int", <<j>>),
                        Returned(Iterator(Len(m.i) - 1), {}))
              \/ Return("begin_col", Typed("int", <<j>>),
                        IF InRange(m.p, j)
                        THEN Returned(Iterator(Elem(m.p, j)), {})
                        ELSE Undefined({}))
              \/ Return("end_col", Typed("int", <<j>>),
                        IF InRange(m.p, j + 1)
                        THEN Returned(Iterator(Elem(m.p, j + 1)), {})
                        ELSE Undefined({}))

\* The last call returned an iterator.
HoldsIterator ==
    /\ sp_mat # None
    /\ sp_ret # None
    /\ sp_ret[1].op \in {"begin", "end", "begin_col", "end_col",
                         "operator++", "operator--"}
    /\ sp_ret[1].out.value # None

\* operator++ and operator--, lines 56-57, on the iterator returned last;
\* the index is followed from -1 to one beyond the size of i.
IteratorStep ==
    /\ HoldsIterator
    /\ LET index == sp_ret[1].out.value[1]["const_iterator"].index
       IN  \/ /\ index <= Len(sp_mat[1].i)
              /\ Return("operator++", Typed("const_iterator", <<index>>),
                        Returned(Iterator(index + 1), {}))
           \/ /\ index >= 0
              /\ Return("operator--", Typed("const_iterator", <<index>>),
                        Returned(Iterator(index - 1), {}))

\* row(), col() and operator* of the iterator returned last, lines 58-60.
\* col() stops at the first j with p[j] >= index, or at p.size().
IteratorRead ==
    /\ HoldsIterator
    /\ LET m == sp_mat[1]
           index == sp_ret[1].out.value[1]["const_iterator"].index
           stops == {j \in 0..(Len(m.p) - 1) : Elem(m.p, j) >= index}
       IN  \/ Return("const_iterator::row",
                     Typed("const_iterator", <<index>>),
                     IF InRange(m.i, index)
                     THEN Returned(Typed("int", Elem(m.i, index)), {})
                     ELSE Undefined({}))
           \/ Return("const_iterator::col",
                     Typed("const_iterator", <<index>>),
                     Returned(Typed("int",
                         IF stops = {} THEN Len(m.p)
                         ELSE CHOOSE j \in stops : \A k \in stops : j <= k),
                         {}))
           \/ Return("const_iterator::operator*",
                     Typed("const_iterator", <<index>>),
                     IF InRange(m.x, index)
                     THEN Returned(Typed("double", Elem(m.x, index)), {})
                     ELSE Undefined({}))

\* The caller takes the result and goes on to its next call.  After
\* undefined behaviour nothing more is followed.
TakeResult ==
    /\ sp_ret # None
    /\ ~sp_ret[1].out.undefined
    /\ sp_ret' = None
    /\ UNCHANGED <<sp_args, sp_mat, sp_made>>
    /\ UNCHANGED <<sirVars, sumVars, sqrtVars, runVars, logVars, bamVars,
                   lexVars, posixVars, fibVars, ipVars, medVars, nthVars,
                   cumVars>>

SparseNext ==
    \/ ConstructFromArrays \/ ConstructWithDimnames \/ ConstructFromS4
    \/ CallProperty
    \/ CallAt \/ CallRowCols \/ CallRowsCol \/ CallRowsCols
    \/ CallCol \/ CallCols \/ CallRow \/ CallRows
    \/ CallColSums \/ CallRowSums \/ CallColMeans \/ CallRowMeans
    \/ CallCrossprod
    \/ CallBegin \/ IteratorStep \/ IteratorRead
    \/ TakeResult

SpecSparse == SparseInit /\ [][SparseNext]_vars

\* The compressed sparse column invariant of the arrays a: p has ncol + 1
\* elements, i and x have the same number of elements, and the row indices
\* of each column are in ascending order.
CSCInvariant(a) ==
    /\ Len(a.p) = a.Dim[2] + 1
    /\ Len(a.i) = Len(a.x)
    /\ \A c \in 0..(a.Dim[2] - 1) :
          (InRange(a.p, c) /\ InRange(a.p, c + 1)) =>
              \A j, k \in 0..(Len(a.i) - 1) :
                  (Elem(a.p, c) <= j /\ j < k /\ k < Elem(a.p, c + 1)) =>
                      Elem(a.i, j) <= Elem(a.i, k)

\* C1: the arrays of an object that a constructor has made satisfy the
\* compressed sparse column invariant: length(p) = ncol() + 1,
\* length(i) = length(x) = n_nonzero(), and the row indices of each column
\* are sorted ascending.
C1_ConstructorsEstablishCSC ==
    sp_made # None => CSCInvariant(sp_made[1])

\* C2: after any sequence of calls of the public operations the arrays i,
\* p, x and Dim of the object hold the values they had right after
\* construction.
C2_ArraysKeepConstructedValues ==
    sp_mat # None => Arrays(sp_mat[1]) = sp_made[1]

\* The arrays a are those of a well-formed matrix: besides the invariant
\* above, p starts at 0, does not decrease and ends at the length of i,
\* every row index is a row of the matrix, and no column names a row twice.
WellFormed(a) ==
    /\ CSCInvariant(a)
    /\ Elem(a.p, 0) = 0
    /\ Elem(a.p, a.Dim[2]) = Len(a.i)
    /\ \A c \in 0..(a.Dim[2] - 1) : Elem(a.p, c) <= Elem(a.p, c + 1)
    /\ \A j \in 0..(Len(a.i) - 1) :
          0 <= Elem(a.i, j) /\ Elem(a.i, j) < a.Dim[1]
    /\ \A c \in 0..(a.Dim[2] - 1) :
          \A j, k \in 0..(Len(a.i) - 1) :
              (Elem(a.p, c) <= j /\ j < k /\ k < Elem(a.p, c + 1)) =>
                  Elem(a.i, j) # Elem(a.i, k)

\* The cell (r, c) of the matrix that the arrays a stand for: x[j] for the
\* j in [p[c], p[c+1]) with i[j] = r, and 0 when there is none.
CellValue(a, r, c) ==
    LET J == {j \in 0..(Len(a.i) - 1) :
                 /\ Elem(a.p, c) <= j /\ j < Elem(a.p, c + 1)
                 /\ Elem(a.i, j) = r
                 /\ InRange(a.x, j)}
    IN  IF J = {} THEN 0 ELSE Elem(a.x, CHOOSE j \in J : TRUE)

\* The last call was op and returned: at(r, c), row(r) or col(c) inside
\* the matrix give the cells of the matrix.
AccessorsGiveCells(a, call) ==
    LET nrow == a.Dim[1]
        ncol == a.Dim[2]
        returns(type) == ~call.out.undefined /\ call.out.value # None
    IN  /\ call.op = "at" =>
              LET r == call.args["int, int"][1]
                  c == call.args["int, int"][2]
              IN  (r < nrow /\ c < ncol) =>
                      /\ returns("double")
                      /\ call.out.value[1]["double"] = CellValue(a, r, c)
        /\ call.op = "row" =>
              LET r == call.args["int"][1]
              IN  r < nrow =>
                      /\ returns("NumericVector")
                      /\ call.out.value[1]["NumericVector"] =
                             [k \in 1..ncol |-> CellValue(a, r, k - 1)]
        /\ call.op = "col" =>
              LET c == call.args["int"][1]
              IN  c < ncol =>
                      /\ returns("NumericVector")
                      /\ call.out.value[1]["NumericVector"] =
                             [k \in 1..nrow |-> CellValue(a, k - 1, c)]

C18_CrossprodOfColumns ==
    (sp_ret # None /\ WellFormed(sp_made[1])) =>
        (sp_ret[1].op = "crossprod" =>
            LET a == sp_made[1]
                out == sp_ret[1].out
                RECURSIVE Dot(_, _, _)
                Dot(r, ca, cb) ==
                    IF r = 0 THEN 0
                    ELSE Dot(r - 1, ca, cb)
                         + CellValue(a, r - 1, ca) * CellValue(a, r - 1, cb)
            IN  /\ ~out.undefined
                /\ out.value # None
                /\ out.value[1]["NumericMatrix"] =
                       [ca \in 1..a.Dim[2] |->
                           [cb \in 1..a.Dim[2] |->
                               Dot(a.Dim[1], ca - 1, cb - 1)]])

(***************************************************************************)
(* toPOSIXct: parsing datetimes with Boost Date_Time                       *)
(* (2015-03-22-parsing-datetimes.cpp).  An element of the input is known   *)
(* by the length of its string form, lexical_cast<std::string>(sv[i]), and *)
(* by the set of the formats, numbered as in the array formats[], under    *)
(* which "is >> pt" reads a time from the string that stringToTime is      *)
(* given.  A double is <<"time", f>> for the time read under format f,     *)
(* <<"nan", 0>> for NAN, <<"int", 0>> for zero and <<"secs", k>> for the   *)
(* value of element k of a numeric input.                                  *)
(***************************************************************************)

\* Bound of the model: the longest input vector.
MaxPosixLen == 2

\* Line 64: the number of formats.
nformats == 4

\* The vectors R hands to toPOSIXct: the type, the elements and, for a
\* numeric vector, whether v[0] < 21990101.  The lengths of the string
\* forms are those of "NA", of seven characters, of "20040321" and
\* "rapunzel", of nine characters, of "2004-03-21" and of
\* "2004-03-21 12:45:33.123456"; Fits are the sets of formats that fit.
PosixInputs ==
    LET StringLengths == {2, 7, 8, 9, 10, 26}
        Fits == {{}, {0}, {2}, {1, 3}}
    IN  {[type |-> t, below |-> b, elems |-> e] :
            <<t, b, e>> \in
                {c \in {"character", "integer", "numeric", "logical"}
                       \X BOOLEAN
                       \X SeqsUpTo([len : StringLengths, fits : Fits],
                                   MaxPosixLen) :
                    c[1] # "numeric" => ~c[2]}}

\* stringToTime, lines 81-102: pt is None while it equals ptbase; Try is
\* the loop of lines 86-90 from format i on.
stringToTime(fits) ==
    LET ptbase == None
        RECURSIVE Try(_, _)
        Try(pt, i) ==
            IF pt = ptbase /\ i < nformats
            THEN Try(IF i \in fits THEN Some(i) ELSE pt, i + 1)
            ELSE pt
        pt == Try(ptbase, 0)
    IN  IF pt = ptbase THEN <<"nan", 0>> ELSE <<"time", pt[1]>>

\* (a test that only rejects the short strings)
InadmissibleShort(l) == l < 8
\* Lines 134-135: (l < 8) || (l == 9).
Inadmissible(l) == l < 8 \/ l = 9

PosixInit ==
    /\ px_x \in PosixInputs
    /\ px_pv = None
    /\ px_i = 0
    /\ px_ret = None
    /\ SirIdle /\ SumIdle /\ SqrtIdle /\ RunIdle /\ LogIdle /\ BamIdle
    /\ LexIdle /\ SparseIdle /\ FibIdle /\ IpIdle /\ MedIdle /\ NthIdle
    /\ CumIdle

\* toPOSIXct, lines 155-176, up to the loop of toPOSIXct_impl: the
\* dispatch on the type, and lines 123-124.  v[0] of an empty numeric
\* vector is a read outside the vector: either branch may be taken.
CallToPOSIXct ==
    /\ px_ret = None
    /\ px_pv = None
    /\ LET n == Len(px_x.elems)
           impl == /\ px_pv' = Some([k \in 1..n |-> <<"int", 0>>])
                   /\ px_ret' = px_ret
           asis == /\ px_ret' = Some(Value([k \in 1..n |-> <<"secs", k>>]))
                   /\ px_pv' = px_pv
       IN  CASE px_x.type \in {"character", "integer"} -> impl
             [] px_x.type = "numeric" ->
                   IF n = 0 THEN impl \/ asis
                   ELSE IF px_x.below THEN impl ELSE asis
             [] OTHER ->
                   /\ px_ret' = Some(forward_exception_to_r(
                          Exception("Rcpp::exception", "Unsupported Type")))
                   /\ px_pv' = px_pv
    /\ UNCHANGED <<px_x, px_i>>
    /\ UNCHANGED <<sirVars, sumVars, sqrtVars, runVars, logVars, bamVars,
                   lexVars, sparseVars, fibVars, ipVars, medVars, nthVars,
                   cumVars>>

\* One turn of the loop of toPOSIXct_impl, lines 126-141.  A string of
\* length 8 is rewritten to YYYY/MM/DD before stringToTime sees it.
PosixLoop ==
    /\ px_ret = None
    /\ px_pv # None
    /\ px_i < Len(px_x.elems)
    /\ LET el == px_x.elems[px_i + 1]
       IN  IF Inadmissible(el.len)
           THEN /\ px_ret' = Some(forward_exception_to_r(
                       Exception("Rcpp::exception", "Inadmissable input")))
                /\ UNCHANGED <<px_pv, px_i>>
           ELSE /\ px_pv' = Some([px_pv[1] EXCEPT
                                     ![px_i + 1] = stringToTime(el.fits)])
                /\ px_i' = px_i + 1
                /\ px_ret' = px_ret
    /\ UNCHANGED px_x
    /\ UNCHANGED <<sirVars, sumVars, sqrtVars, runVars, logVars, bamVars,
                   lexVars, sparseVars, fibVars, ipVars, medVars, nthVars,
                   cumVars>>

\* Line 142: return pv.
PosixReturn ==
    /\ px_ret = None
    /\ px_pv # None
    /\ px_i >= Len(px_x.elems)
    /\ px_ret' = Some(Value(px_pv[1]))
    /\ UNCHANGED <<px_x, px_pv, px_i>>
    /\ UNCHANGED <<sirVars, sumVars, sqrtVars, runVars, logVars, bamVars,
                   lexVars, sparseVars, fibVars, ipVars, medVars, nthVars,
                   cumVars>>

PosixNext == CallToPOSIXct \/ PosixLoop \/ PosixReturn

SpecPosix == PosixInit /\ [][PosixNext]_vars

\* C11: for a character or integer vector the call raises the error
\* "Inadmissable input" if and only if the string form of some element has
\* a length below 8 or of exactly 9, and then returns nothing; otherwise it
\* returns a vector of the length of the input whose element k is the time
\* read under the first format that fits element k, and NA when no format
\* fits.
C11_ErrorIffInadmissibleElseNA ==
    (px_ret # None /\ px_x.type \in {"character", "integer"}) =>
        LET out == px_ret[1]
            el == px_x.elems
            bad == \E k \in DOMAIN el : el[k].len < 8 \/ el[k].len = 9
        IN  /\ out.error <=> bad
            /\ out.error =>
                  out.message = "Inadmissable input" /\ out.value = None
            /\ ~out.error =>
                  /\ out.value # None
                  /\ Len(out.value[1]) = Len(el)
                  /\ \A k \in DOMAIN el :
                        out.value[1][k] =
                            IF el[k].fits = {} THEN <<"nan", 0>>
                            ELSE <<"time",
                                   CHOOSE f \in el[k].fits :
                                       \A g \in el[k].fits : f <= g>>

\* The call of the R test in small: a datetime, then "rapunzel".
C11_Witness ==
    /\ px_ret # None
    /\ px_x.type = "character"
    /\ px_x.elems = <<[len |-> 26, fits |-> {0}], [len |-> 8, fits |-> {}]>>
    /\ px_ret[1].value = Some(<<<<"time", 0>>, <<"nan", 0>>>>)

(***************************************************************************)
(* fibCpp: the recursive function of 2012-12-23-fibonacci-sequence.cpp.    *)
(* The calls in progress are the frames of fib_stack, the innermost last;  *)
(* a frame is its argument n, its position (at the test, waiting for the   *)
(* first or for the second call of line 53) and the value the first call   *)
(* returned.  fib_val is the value that the call which has just returned   *)
(* hands to its caller.  The arguments of the model are non-negative and   *)
(* the values stay far below the int range.                                *)
(***************************************************************************)

\* Bound of the model: the largest argument.
MaxFibN == 6

\* R calls fibCpp(n).
FibInit ==
    /\ fib_n \in 0..MaxFibN
    /\ fib_stack = <<[n |-> fib_n, pc |-> "test", first |-> 0]>>
    /\ fib_val = None
    /\ SirIdle /\ SumIdle /\ SqrtIdle /\ RunIdle /\ LogIdle /\ BamIdle
    /\ LexIdle /\ SparseIdle /\ PosixIdle /\ IpIdle /\ MedIdle /\ NthIdle
    /\ CumIdle

\* Lines 50-51: (n == 0) | (n == 1), return 1.
FibBase ==
    /\ fib_val = None
    /\ fib_stack # <<>>
    /\ LET top == fib_stack[Len(fib_stack)]
       IN  /\ top.pc = "test"
           /\ top.n = 0 \/ top.n = 1
           /\ fib_stack' = SubSeq(fib_stack, 1, Len(fib_stack) - 1)
           /\ fib_val' = Some(1)
    /\ UNCHANGED fib_n
    /\ UNCHANGED <<sirVars, sumVars, sqrtVars, runVars, logVars, bamVars,
                   lexVars, sparseVars, posixVars, ipVars, medVars, nthVars,
                   cumVars>>

\* Line 53, the first operand: fibCpp(n-1) is called.
FibRecurse ==
    /\ fib_val = None
    /\ fib_stack # <<>>
    /\ LET top == fib_stack[Len(fib_stack)]
       IN  /\ top.pc = "test"
           /\ ~(top.n = 0 \/ top.n = 1)
           /\ fib_stack' = Append(
                  [fib_stack EXCEPT ![Len(fib_stack)].pc = "first"],
                  [n |-> top.n - 1, pc |-> "test", first |-> 0])
    /\ UNCHANGED <<fib_n, fib_val>>
    /\ UNCHANGED <<sirVars, sumVars, sqrtVars, runVars, logVars, bamVars,
                   lexVars, sparseVars, posixVars, ipVars, medVars, nthVars,
                   cumVars>>

\* Line 53, a call has returned: after the first operand the second,
\* fibCpp(n-1), is called; after the second the sum is returned.
FibResume ==
    /\ fib_val # None
    /\ fib_stack # <<>>
    /\ LET top == fib_stack[Len(fib_stack)]
       IN  IF top.pc = "first"
           THEN /\ fib_stack' = Append(
                       [fib_stack EXCEPT ![Len(fib_stack)] =
                           [top EXCEPT !.pc = "second", !.first = fib_val[1]]],
                       [n |-> top.n - 1, pc |-> "test", first |-> 0])
                /\ fib_val' = None
           ELSE /\ fib_stack' = SubSeq(fib_stack, 1, Len(fib_stack) - 1)
                /\ fib_val' = Some(top.first + fib_val[1])
    /\ UNCHANGED fib_n
    /\ UNCHANGED <<sirVars, sumVars, sqrtVars, runVars, logVars, bamVars,
                   lexVars, sparseVars, posixVars, ipVars, medVars, nthVars,
                   cumVars>>

FibNext == FibBase \/ FibRecurse \/ FibResume

SpecFib == FibInit /\ [][FibNext]_vars

\* The Fibonacci sequence of the documentation, lines 16-27.
Fibonacci(n) ==
    LET RECURSIVE F(_)
        F(k) == IF k = 0 \/ k = 1 THEN 1 ELSE F(k - 1) + F(k - 2)
    IN  F(n)

\* C12: fibCpp(0) = fibCpp(1) = 1 and fibCpp(n) = fibCpp(n-1) + fibCpp(n-2)
\* for every n >= 2: the value the outermost call returns is the n-th
\* number of the Fibonacci sequence.
C12_FibonacciSequence ==
    (fib_stack = <<>> /\ fib_val # None) => fib_val[1] = Fibonacci(fib_n)

(***************************************************************************)
(* innerProduct: std::inner_product over two vectors                       *)
(* (2012-12-27-stl-inner-product.cpp).  The elements are multiples of one  *)
(* half, held as their number of halves; a product, a sum and the result   *)
(* are held as their number of quarters.  All of them are exact doubles    *)
(* far inside the int range.  The vectors of the model have equal length.  *)
(***************************************************************************)

\* Bound of the model: the longest vector.
MaxIpLen == 2

\* std::inner_product(first1, last1, first2, init) with the int init of
\* line 20: the accumulator has the type of init, so every
\* "acc = acc + *first1 * *first2" converts the double sum to int, which
\* drops its fraction (rounds toward zero).  acc is in units, the result
\* in quarters.
inner_product(x, y, init) ==
    LET ToInt(q) == IF q >= 0 THEN q \div 4 ELSE 0 - ((0 - q) \div 4)
        RECURSIVE Loop(_, _)
        Loop(k, acc) ==
            IF k > Len(x) THEN acc
            ELSE Loop(k + 1, ToInt(4 * acc + x[k] * y[k]))
    IN  4 * Loop(1, init)

\* innerProduct, lines 18-22: double val = the int that inner_product
\* returns.
innerProduct(x, y) == inner_product(x, y, 0)

\* R calls innerProduct(x, y); the elements are -1.5, 0.5, 1 and 2.
IpInit ==
    /\ \E n \in 0..MaxIpLen :
          LET IpHalves == {0 - 3, 1, 2, 4}
          IN  /\ ip_x \in [1..n -> IpHalves]
              /\ ip_y \in [1..n -> IpHalves]
    /\ ip_ret = None
    /\ SirIdle /\ SumIdle /\ SqrtIdle /\ RunIdle /\ LogIdle /\ BamIdle
    /\ LexIdle /\ SparseIdle /\ PosixIdle /\ FibIdle /\ MedIdle /\ NthIdle
    /\ CumIdle

CallInnerProduct ==
    /\ ip_ret = None
    /\ ip_ret' = Some(innerProduct(ip_x, ip_y))
    /\ UNCHANGED <<ip_x, ip_y>>
    /\ UNCHANGED <<sirVars, sumVars, sqrtVars, runVars, logVars, bamVars,
                   lexVars, sparseVars, posixVars, fibVars, medVars, nthVars,
                   cumVars>>

IpNext == CallInnerProduct

SpecIp == IpInit /\ [][IpNext]_vars

\* sum(x * y) of R, in quarters.
SumOfProducts(x, y) ==
    LET RECURSIVE S(_)
        S(k) == IF k = 0 THEN 0 ELSE S(k - 1) + x[k] * y[k]
    IN  S(Len(x))

\* C13: for vectors x and y of equal length, also of values that are not
\* integers, innerProduct(x, y) is the sum over k of x[k] * y[k].
C13_InnerProductIsSumOfProducts ==
    ip_ret # None => ip_ret[1] = SumOfProducts(ip_x, ip_y)

(***************************************************************************)
(* median_rcpp: the median by std::nth_element                             *)
(* (2013-01-20-robust-estimators.cpp).  The elements are small integers;   *)
(* the result is held as its number of halves.  med_y is the clone y       *)
(* after the first nth_element.  The result of a call is its value, or     *)
(* undefined after a read outside y.                                       *)
(***************************************************************************)

\* Bound of the model: the longest input vector.
MaxMedLen == 4

\* (a rearrangement that orders nothing)
nth_element_any(y, first, nth, last) ==
    {[k \in 1..Len(y) |-> y[f[k]]] :
        f \in {g \in [1..Len(y) -> 1..Len(y)] :
                 /\ \A a, b \in 1..Len(y) : a # b => g[a] # g[b]
                 /\ \A k \in 1..Len(y) :
                       (k <= first \/ k > last) => g[k] = k}}
\* std::nth_element(y.begin() + first, y.begin() + nth, y.begin() + last):
\* every rearrangement of [first, last) that has at nth the element a sort
\* would put there, no larger element before it and no smaller one after
\* it.  The elements outside [first, last) stay; nth = last has no effect.
nth_element(y, first, nth, last) ==
    {z \in nth_element_any(y, first, nth, last) :
        nth < last =>
            /\ \A k \in (first + 1)..nth : z[k] <= z[nth + 1]
            /\ \A k \in (nth + 2)..last : z[k] >= z[nth + 1]}

\* R calls median_rcpp(x).
MedInit ==
    /\ med_x \in SeqsUpTo(1..3, MaxMedLen)
    /\ med_y = None
    /\ med_ret = None
    /\ SirIdle /\ SumIdle /\ SqrtIdle /\ RunIdle /\ LogIdle /\ BamIdle
    /\ LexIdle /\ SparseIdle /\ PosixIdle /\ FibIdle /\ IpIdle /\ NthIdle
    /\ CumIdle

\* Lines 25-37: the clone, the first nth_element and, for an odd length,
\* the return of y[half].  For the empty vector y[half] is a read outside
\* y.
MedianFirst ==
    /\ med_y = None
    /\ LET n == Len(med_x)
           half == n \div 2
       IN  \E y \in nth_element(med_x, 0, half, n) :
              /\ med_y' = Some(y)
              /\ med_ret' =
                    IF n % 2 = 1
                    THEN Some([undef |-> FALSE, val |-> 2 * y[half + 1]])
                    ELSE IF n = 0 THEN Some([undef |-> TRUE, val |-> 0])
                    ELSE med_ret
    /\ UNCHANGED med_x
    /\ UNCHANGED <<sirVars, sumVars, sqrtVars, runVars, logVars, bamVars,
                   lexVars, sparseVars, posixVars, fibVars, ipVars, nthVars,
                   cumVars>>

\* Lines 37-40, for an even length: y1 = y[half], the second nth_element
\* on [0, half), y2 = y[half-1] and the return of (y1 + y2) / 2.0.
MedianSecond ==
    /\ med_y # None
    /\ med_ret = None
    /\ LET half == Len(med_x) \div 2
           y1 == med_y[1][half + 1]
       IN  \E y \in nth_element(med_y[1], 0, half - 1, half) :
              /\ med_y' = Some(y)
              /\ med_ret' = Some([undef |-> FALSE, val |-> y1 + y[half]])
    /\ UNCHANGED med_x
    /\ UNCHANGED <<sirVars, sumVars, sqrtVars, runVars, logVars, bamVars,
                   lexVars, sparseVars, posixVars, fibVars, ipVars, nthVars,
                   cumVars>>

MedNext == MedianFirst \/ MedianSecond

SpecMed == MedInit /\ [][MedNext]_vars

\* The median of the sorted vector, in halves: the element at the 0-based
\* position n/2 for an odd n, the mean of those at n/2 - 1 and n/2 for an
\* even n.
SortedMedian(x) ==
    LET sorted == SortSeq(x, LAMBDA a, b : a < b)
        half == Len(x) \div 2
    IN  IF Len(x) % 2 = 1 THEN 2 * sorted[half + 1]
        ELSE sorted[half] + sorted[half + 1]

\* C14: for every vector x that is not empty and every arrangement the
\* nth_element steps produce, median_rcpp(x) is the median of the sorted
\* vector.
C14_MedianOfSorted ==
    (med_ret # None /\ med_x # <<>>) =>
        ~med_ret[1].undef /\ med_ret[1].val = SortedMedian(med_x)

\* An even length: the median 1.5 of 3, 1, 2, 1 after both steps.
C14_Witness ==
    /\ med_ret # None
    /\ med_x = <<3, 1, 2, 1>>
    /\ med_y = Some(<<1, 1, 2, 3>>)
    /\ med_ret[1].val = 3

(***************************************************************************)
(* stl_nth_element: one sorted element by std::nth_element                 *)
(* (2013-01-31-sorting.cpp).  The elements are small integers.  The        *)
(* result of a call is the vector returned, or undefined when y.begin()+n  *)
(* is no iterator of y.                                                    *)
(***************************************************************************)

\* Bound of the model: the longest input vector.
MaxNthLen == 3

\* stl_nth_element, lines 92-96: the results the call may have.
stl_nth_element(x, n) ==
    IF n < 0 \/ n > Len(x) THEN {[undef |-> TRUE, val |-> <<>>]}
    ELSE {[undef |-> FALSE, val |-> y] : y \in nth_element(x, 0, n, Len(x))}

\* R calls stl_nth_element(x, n).
NthInit ==
    /\ nth_x \in SeqsUpTo(1..3, MaxNthLen)
    /\ nth_n \in (0 - 1)..(Len(nth_x) + 1)
    /\ nth_ret = None
    /\ SirIdle /\ SumIdle /\ SqrtIdle /\ RunIdle /\ LogIdle /\ BamIdle
    /\ LexIdle /\ SparseIdle /\ PosixIdle /\ FibIdle /\ IpIdle /\ MedIdle
    /\ CumIdle

CallStlNthElement ==
    /\ nth_ret = None
    /\ \E r \in stl_nth_element(nth_x, nth_n) : nth_ret' = Some(r)
    /\ UNCHANGED <<nth_x, nth_n>>
    /\ UNCHANGED <<sirVars, sumVars, sqrtVars, runVars, logVars, bamVars,
                   lexVars, sparseVars, posixVars, fibVars, ipVars, medVars,
                   cumVars>>

NthNext == CallStlNthElement

SpecNth == NthInit /\ [][NthNext]_vars

\* C15: for 1 <= n < length(x) and every arrangement nth_element produces,
\* the element at the 1-based position n of stl_nth_element(x, n) is the
\* n-th smallest element of x, the one at the 1-based position n of the
\* sorted vector.
C15_NthSmallestAtN ==
    (nth_ret # None /\ 1 <= nth_n /\ nth_n < Len(nth_x)) =>
        /\ ~nth_ret[1].undef
        /\ nth_ret[1].val[nth_n] = SortSeq(nth_x, LAMBDA a, b : a < b)[nth_n]

(***************************************************************************)
(* cumsum1, cumsum2 and cumsum_sug: the cumulative sum by a loop, by       *)
(* std::partial_sum and by Rcpp sugar                                      *)
(* (2012-12-22-vector-cumulative-sum.cpp).  An element is a double of the  *)
(* form above, NA_REAL or NaN.  The result of a call is the vector         *)
(* returned, or undefined after an access outside a vector.                *)
(***************************************************************************)

\* Bound of the model: the longest input vector.
MaxCumLen == 3

\* A NaN that is not R's NA.
NaN == [nan |-> TRUE]

\* a + b on doubles: a NaN operand, NA included, is the result, the first
\* one when both are.
CumPlus(a, b) ==
    IF a \in {NA_REAL, NaN} THEN a
    ELSE IF b \in {NA_REAL, NaN} THEN b
    ELSE DAdd(a, b)

\* cumsum1, lines 20-32.
cumsum1(x) ==
    LET RECURSIVE Loop(_, _, _)
        Loop(i, acc, res) ==
            IF i >= Len(x) THEN res
            ELSE Loop(i + 1, CumPlus(acc, x[i + 1]),
                      [res EXCEPT ![i + 1] = CumPlus(acc, x[i + 1])])
    IN  [undef |-> FALSE, val |-> Loop(0, D(0), Zeros(Len(x)))]

\* cumsum2, lines 41-46: std::partial_sum writes the first element, then
\* adds the following ones to its accumulator.
cumsum2(x) ==
    LET RECURSIVE Loop(_, _, _)
        Loop(i, acc, res) ==
            IF i >= Len(x) THEN res
            ELSE Loop(i + 1, CumPlus(acc, x[i + 1]),
                      [res EXCEPT ![i + 1] = CumPlus(acc, x[i + 1])])
    IN  [undef |-> FALSE,
         val |-> IF x = <<>> THEN <<>>
                 ELSE Loop(1, x[1], [Zeros(Len(x)) EXCEPT ![1] = x[1]])]

\* cumsum_sug, lines 55-57: the sugar cumsum(x) fills its result with NA,
\* reads object[0] whatever the length, and stops at the first element
\* that is NA or NaN.  For the empty vector the read is outside the
\* vector: the call returns the empty result or does anything else.
cumsum_sug(x) ==
    LET RECURSIVE Loop(_, _)
        Loop(i, res) ==
            IF i >= Len(x) THEN res
            ELSE IF x[i + 1] \in {NA_REAL, NaN} THEN res
            ELSE Loop(i + 1, [res EXCEPT ![i + 1] = CumPlus(res[i], x[i + 1])])
        result == [k \in 1..Len(x) |-> NA_REAL]
    IN  IF x = <<>>
        THEN {[undef |-> FALSE, val |-> <<>>], [undef |-> TRUE, val |-> <<>>]}
        ELSE IF x[1] \in {NA_REAL, NaN}
        THEN {[undef |-> FALSE, val |-> result]}
        ELSE {[undef |-> FALSE,
               val |-> Loop(1, [result EXCEPT ![1] = x[1]])]}

\* R calls the three functions, in any order, with one vector.
CumInit ==
    /\ cum_x \in SeqsUpTo({D(1), D(2), Big, NA_REAL, NaN}, MaxCumLen)
    /\ cum_ret = [f \in {"cumsum1", "cumsum2", "cumsum_sug"} |-> None]
    /\ SirIdle /\ SumIdle /\ SqrtIdle /\ RunIdle /\ LogIdle /\ BamIdle
    /\ LexIdle /\ SparseIdle /\ PosixIdle /\ FibIdle /\ IpIdle /\ MedIdle
    /\ NthIdle

CallCumsum1 ==
    /\ cum_ret["cumsum1"] = None
    /\ cum_ret' = [cum_ret EXCEPT !["cumsum1"] = Some(cumsum1(cum_x))]
    /\ UNCHANGED cum_x
    /\ UNCHANGED <<sirVars, sumVars, sqrtVars, runVars, logVars, bamVars,
                   lexVars, sparseVars, posixVars, fibVars, ipVars, medVars,
                   nthVars>>

CallCumsum2 ==
    /\ cum_ret["cumsum2"] = None
    /\ cum_ret' = [cum_ret EXCEPT !["cumsum2"] = Some(cumsum2(cum_x))]
    /\ UNCHANGED cum_x
    /\ UNCHANGED <<sirVars, sumVars, sqrtVars, runVars, logVars, bamVars,
                   lexVars, sparseVars, posixVars, fibVars, ipVars, medVars,
                   nthVars>>

CallCumsumSug ==
    /\ cum_ret["cumsum_sug"] = None
    /\ \E r \in cumsum_sug(cum_x) :
          cum_ret' = [cum_ret EXCEPT !["cumsum_sug"] = Some(r)]
    /\ UNCHANGED cum_x
    /\ UNCHANGED <<sirVars, sumVars, sqrtVars, runVars, logVars, bamVars,
                   lexVars, sparseVars, posixVars, fibVars, ipVars, medVars,
                   nthVars>>

CumNext == CallCumsum1 \/ CallCumsum2 \/ CallCumsumSug

SpecCum == CumInit /\ [][CumNext]_vars

\* The reference cumulative sum, cumsum(x) of R: element i is
\* x[0] + ... + x[i], added from the left.
CumsumReference(x) ==
    LET RECURSIVE S(_)
        S(k) == IF k = 1 THEN x[1] ELSE CumPlus(S(k - 1), x[k])
    IN  [k \in 1..Len(x) |-> S(k)]

\* C16: for every vector x, the empty one included, cumsum1(x), cumsum2(x)
\* and cumsum_sug(x) return the same vector, the reference cumulative sum
\* of x.
C16_CumulativeSumsAgree ==
    \A f \in {"cumsum1", "cumsum2", "cumsum_sug"} :
        cum_ret[f] # None =>
            /\ ~cum_ret[f][1].undef
            /\ cum_ret[f][1].val = CumsumReference(cum_x)

(***************************************************************************)
(* tauleapCpp: stochastic SIR model, tau-leap method.                      *)
(* Compartment sizes are integer-valued doubles far below 2^53, on which   *)
(* double arithmetic is exact; they are modelled as integers.              *)
(***************************************************************************)

\* Bounds of the model of tauleapCpp.
MaxSteps == 3
MaxInit == 1
MaxDraw == 1

\* One value returned by R::rpois: a non-negative integer.
Draws == 0..MaxDraw

\* Lines 61-78: the state vectors are filled with the initial values, time
\* with zeros, and the loop starts at istep = 0.  The population handed in
\* as init["pop"] is the sum of the three compartments, as in the R code
\* that calls tauleapCpp.
SirInit ==
    /\ nsteps \in 0..MaxSteps
    /\ \E s0 \in 0..MaxInit, i0 \in 0..MaxInit, r0 \in 0..MaxInit :
          /\ SS = [k \in 0..(nsteps - 1) |-> s0]
          /\ II = [k \in 0..(nsteps - 1) |-> i0]
          /\ RR = [k \in 0..(nsteps - 1) |-> r0]
          /\ NN = [k \in 0..(nsteps - 1) |-> s0 + i0 + r0]
    /\ time = [k \in 0..(nsteps - 1) |-> 0]
    /\ istep = 0
    /\ SumIdle /\ SqrtIdle /\ RunIdle /\ LogIdle /\ BamIdle /\ LexIdle
    /\ SparseIdle /\ PosixIdle /\ FibIdle /\ IpIdle /\ MedIdle /\ NthIdle
    /\ CumIdle

\* Lines 107-112, "Prevent negative states": every outflow of a compartment
\* is capped by what is left in the compartment.
Sdeaths(iS, d) == Min(iS, d)
\* (a transmission that is not capped by the susceptibles left)
TransmissionUncapped(iS, sdeaths, maxtrans) == maxtrans
Transmission(iS, sdeaths, maxtrans) == Min(iS - sdeaths, maxtrans)
Ideaths(iI, d) == Min(iI, d)
Recovery(iI, ideaths, d) == Min(iI - ideaths, d)
Rdeaths(iR, d) == Min(iR, d)

\* Lines 88-129: one iteration of the loop over istep.  The six Poisson
\* draws are the inputs of the step (each capped outflow ranges over the
\* values its draw can give it); time is counted in units of tau.
tauleapStep ==
    /\ istep < nsteps - 1
    /\ LET iS == SS[istep]
           iI == II[istep]
           iR == RR[istep]
       IN  \E births \in Draws,
              sdeaths \in {Sdeaths(iS, d) : d \in Draws},
              ideaths \in {Ideaths(iI, d) : d \in Draws},
              rdeaths \in {Rdeaths(iR, d) : d \in Draws} :
              \E transmission \in {Transmission(iS, sdeaths, d) : d \in Draws},
                 recovery \in {Recovery(iI, ideaths, d) : d \in Draws} :
                 LET dS == births - sdeaths - transmission
                     dI == transmission - ideaths - recovery
                     dR == recovery - rdeaths
                 IN  /\ SS' = [SS EXCEPT ![istep + 1] = iS + dS]
                     /\ II' = [II EXCEPT ![istep + 1] = iI + dI]
                     /\ RR' = [RR EXCEPT ![istep + 1] = iR + dR]
                     /\ NN' = [NN EXCEPT ![istep + 1] =
                                  iS + iI + iR + dS + dI + dR]
    /\ time' = [time EXCEPT ![istep + 1] = istep + 1]
    /\ istep' = istep + 1
    /\ UNCHANGED nsteps
    /\ UNCHANGED <<sumVars, sqrtVars, runVars, logVars, bamVars, lexVars,
                   sparseVars, posixVars, fibVars, ipVars, medVars, nthVars,
                   cumVars>>

SirNext == tauleapStep

\* The other programs stay idle.
SpecSir == SirInit /\ [][SirNext]_vars

\* C6: with non-negative initial S, I and R, every S[t], I[t] and R[t] is
\* non-negative at every step t in 0 .. nsteps-1, whatever non-negative
\* integers the Poisson draws return.
C6_NonNegativeStates ==
    \A t \in 0..(nsteps - 1) : SS[t] >= 0 /\ II[t] >= 0 /\ RR[t] >= 0

\* A run of two steps in which a population of three has died out: the
\* caps on the outflows have decided the result.
C6_Witness ==
    /\ istep >= 2
    /\ SS[0] + II[0] + RR[0] = 3
    /\ SS[istep] = 0 /\ II[istep] = 0 /\ RR[istep] = 0

=============================================================================
